---- MODULE Spec2Model ----
(***************************************************************************)
(* Model of package pctl: the Updater stages (Setpoint, LPF, HPF, Biquad,  *)
(* PID, StateSpaceFilter, FIRFilter) and the Cascade composition.          *)
(*                                                                         *)
(* float64 values are modelled as extended rationals <<n, d>>: a finite    *)
(* value is a reduced fraction with d > 0, +Inf is <<1, 0>>, -Inf is       *)
(* <<-1, 0>> and NaN is <<0, 0>>.  The arithmetic follows IEEE-754 for the *)
(* special values (x/0, 0/0, 0*Inf, Inf-Inf, comparisons with NaN).        *)
(* Every arithmetic operation rounds its exact result to nearest, ties to  *)
(* even, on a significand of prec bits; prec = 0 is the idealisation with  *)
(* an unbounded significand (exact arithmetic).  The exponent range is     *)
(* unbounded and signed zero is not modelled.                              *)
(***************************************************************************)
EXTENDS Integers, Sequences, FiniteSets, TLC

VARIABLES prec, stages, casCall, pid, pidCall, loop, fir, firCall, ssf, ssfCall,
          share, bq, ord, lpf, hpf, hpt, ctl, pl, dq, sb

casVars == <<stages, casCall>>

pidVars == <<pid, pidCall>>

firVars == <<fir, firCall>>

ssfVars == <<ssf, ssfCall>>

vars == <<prec, casVars, pidVars, loop, firVars, ssfVars, share, bq, ord, lpf, hpf, hpt, ctl, pl, dq, sb>>

(***************************************************************************)
(* float64                                                                 *)
(***************************************************************************)
Abs(n) == IF n < 0 THEN -n ELSE n

Sign(n) == IF n > 0 THEN 1 ELSE IF n < 0 THEN -1 ELSE 0

\* Euclid's algorithm; the remainder is evaluated once per step
RECURSIVE GCD(_, _)
GCD(a, b) ==
    IF b = 0 THEN a ELSE CHOOSE g \in {GCD(x[1], x[2]) : x \in {<<b, a % b>>}} : TRUE

NaN == <<0, 0>>

PInf == <<1, 0>>

NInf == <<-1, 0>>

\* the float64 with value n/d
Norm(n, d) ==
    IF d = 0 THEN <<Sign(n), 0>>
    ELSE CHOOSE r \in {<<(Sign(d) * n) \div g, (Sign(d) * d) \div g>> :
                          g \in {GCD(Abs(n), Abs(d))}} : TRUE

F(n) == <<n, 1>>

IsNaN(a) == a = NaN

IsFinite(a) == a[2] # 0

RECURSIVE Pow2(_)
Pow2(k) == IF k = 0 THEN 1 ELSE 2 * Pow2(k - 1)

\* n/d scaled by a power of two into [2^(p-1), 2^p): <<numerator,
\* denominator, exponent>> with n/d = (numerator/denominator) * 2^exponent
RECURSIVE Scale(_, _, _, _)
Scale(n, d, e, p) ==
    LET next == IF n \div d >= Pow2(p)
                THEN (IF n % 2 = 0 THEN <<n \div 2, d, e + 1>>
                      ELSE <<n, 2 * d, e + 1>>)
                ELSE IF n \div d < Pow2(p - 1)
                THEN (IF d % 2 = 0 THEN <<n, d \div 2, e - 1>>
                      ELSE <<2 * n, d, e - 1>>)
                ELSE <<n, d, e>>
    IN  CHOOSE r \in {IF x = <<n, d, e>> THEN x ELSE Scale(x[1], x[2], x[3], p) :
                      x \in {next}} : TRUE

\* sign * m * 2^e for the integer m nearest to the scaled s = <<n, d, e>>,
\* ties to even
RoundScaled(sign, s) ==
    LET fl == s[1] \div s[2]
        r  == s[1] % s[2]
        m  == IF 2 * r > s[2] \/ (2 * r = s[2] /\ fl % 2 = 1)
              THEN fl + 1 ELSE fl
    IN  IF s[3] >= 0 THEN Norm(sign * m * Pow2(s[3]), 1)
        ELSE Norm(sign * m, Pow2(-s[3]))

\* the nearest value to a with a significand of p bits, ties to even
RoundTo(a, p) ==
    IF ~IsFinite(a) \/ a[1] = 0 THEN a
    ELSE CHOOSE r \in {RoundScaled(Sign(a[1]), s) :
                          s \in {Scale(Abs(a[1]), a[2], 0, p)}} : TRUE

\* the float64 nearest to the real number a
Fl(a) == IF prec = 0 THEN a ELSE CHOOSE r \in {RoundTo(x, prec) : x \in {a}} : TRUE

\* a * b as a real number for the values a, b
MulValues(a, b) ==
    IF ~IsFinite(a) \/ ~IsFinite(b) \/ a[1] = 0 \/ b[1] = 0
    THEN Norm(a[1] * b[1], a[2] * b[2])
    ELSE CHOOSE r \in {Norm((a[1] \div g) * (b[1] \div h),
                             (a[2] \div h) * (b[2] \div g)) :
                          g \in {GCD(Abs(a[1]), b[2])},
                          h \in {GCD(Abs(b[1]), a[2])}} : TRUE

\* a * b as a real number; the operands are evaluated once
XMul(a, b) == CHOOSE r \in {MulValues(x, y) : x \in {a}, y \in {b}} : TRUE

\* a + b as a real number for the values a, b
AddValues(a, b) ==
    IF IsNaN(a) \/ IsNaN(b) THEN NaN
    ELSE IF ~IsFinite(a) /\ ~IsFinite(b) THEN (IF a = b THEN a ELSE NaN)
    ELSE IF ~IsFinite(a) THEN a
    ELSE IF ~IsFinite(b) THEN b
    ELSE CHOOSE r \in {Norm(a[1] * (b[2] \div g) + b[1] * (a[2] \div g),
                             (a[2] \div g) * b[2]) :
                          g \in {GCD(a[2], b[2])}} : TRUE

\* a + b as a real number; the operands are evaluated once
XAdd(a, b) == CHOOSE r \in {AddValues(x, y) : x \in {a}, y \in {b}} : TRUE

\* Go's a * b
Mul(a, b) == Fl(XMul(a, b))

\* Go's a + b
Add(a, b) == Fl(XAdd(a, b))

\* Go's -a
Neg(a) == CHOOSE r \in {<<-x[1], x[2]>> : x \in {a}} : TRUE

\* Go's a - b
Sub(a, b) == Add(a, Neg(b))

\* Go's a / b
Div(a, b) ==
    CHOOSE r \in {Mul(a, IF y[1] > 0 THEN <<y[2], y[1]>>
                         ELSE IF y[1] < 0 THEN <<-y[2], -y[1]>>
                         ELSE IF y[2] = 0 THEN NaN ELSE PInf) : y \in {b}} : TRUE

\* a < b for the values a, b
LtValues(a, b) ==
    /\ ~IsNaN(a)
    /\ ~IsNaN(b)
    /\ IF ~IsFinite(a) /\ ~IsFinite(b) THEN a[1] < b[1]
       ELSE a[1] * b[2] < b[1] * a[2]

\* Go's a < b (false when either side is NaN)
Lt(a, b) == \E x \in {a}, y \in {b} : LtValues(x, y)

\* Go's a > b
Gt(a, b) == Lt(b, a)

\* Go's a == b (false when either side is NaN)
Eq(a, b) == \E x \in {a}, y \in {b} : ~IsNaN(x) /\ ~IsNaN(y) /\ x = y

\* Go's a != b
Neq(a, b) == ~Eq(a, b)

\* Go's a <= b
Le(a, b) == \E x \in {a}, y \in {b} : Lt(x, y) \/ Eq(x, y)

Zero == F(0)

\* math.Pi, to three digits
Pi == Norm(25, 8)

(***************************************************************************)
(* Bounds                                                                  *)
(***************************************************************************)
\* number of stage objects on the heap of the Cascade specification
NStages == 2

\* number of Cascade calls in one behaviour
MaxCalls == 2

\* number of operations on the PID in one behaviour
MaxOps == 4

\* longest tap vector drawn from the 0/1 tap values
MaxTaps == 4

\* number of operations on the FIR filter in one behaviour
MaxFirOps == 6

\* number of operations on the state-space filter in one behaviour
MaxSsOps == 5

MaxShareOps == 3

MaxBqOps == 2

MaxOrdCalls == 2

\* the significand: 4 bits stand for the 53 bits of a float64
PrecBits == 4

MaxLpfOps == 6

\* the largest denominator of a filter state that is updated further
MaxDen == 1048576

MaxHpfOps == 3

\* the number of measurements sent on m
MaxMeas == 3

\* the number of calls made while the loop runs
MaxCmds == 2

\* the number of Start/Stop pairs of a PhaseLock
MaxLaps == 2

\* the number of Updates of the Biquad built by NewBiquad
MaxDqOps == 4

\* the number of calls on the StateSpaceFilter whose buffers are observed
MaxSbOps == 4

(***************************************************************************)
(* Program constants                                                       *)
(***************************************************************************)
\* the number of loop iterations of TestPIDConverges
Iterations == 5

(***************************************************************************)
(* Stages                                                                  *)
(***************************************************************************)
\* an Update that tracks the measurement as the new target
SetpointUpdateTracking(s, meas) ==
    [out |-> Sub(meas, s.target), st |-> [s EXCEPT !.target = meas]]

\* an Update that returns setpt - meas
SetpointUpdateReversed(s, meas) ==
    [out |-> Sub(s.target, meas), st |-> s]

\* Setpoint.Update: the process error, meas - setpt
SetpointUpdate(s, meas) ==
    [out |-> Sub(meas, s.target), st |-> s]

\* an Update with alpha = DT / rc
LPFUpdateUnnormalised(l, input) ==
    LET alpha == Div(l.DT, l.rc)
        prev  == Add(l.prev, Mul(alpha, Sub(input, l.prev)))
    IN  [out |-> prev, st |-> [l EXCEPT !.prev = prev]]

\* LPF.Update
LPFUpdate(l, input) ==
    LET alpha == Div(l.DT, Add(l.rc, l.DT))
        prev  == Add(l.prev, Mul(alpha, Sub(input, l.prev)))
    IN  [out |-> prev, st |-> [l EXCEPT !.prev = prev]]

\* an Update that adds the input to the state
HPFUpdateWithInput(h, input) ==
    LET alpha == Div(h.rc, Add(h.rc, h.DT))
        prev  == Mul(alpha, Add(h.prev, input))
    IN  [out |-> prev, st |-> [h EXCEPT !.prev = prev]]

\* HPF.Update
HPFUpdate(h, input) ==
    LET alpha == Div(h.rc, Add(h.rc, h.DT))
        prev  == Mul(alpha, Add(h.prev, h.DT))
    IN  [out |-> prev, st |-> [h EXCEPT !.prev = prev]]

\* an Update whose first delay state leaves out the feedback of the output
BiquadUpdateNoFeedback(b, input) ==
    LET out == Add(Mul(b.a0, input), b.z1)
        z1  == Add(Mul(input, b.a1), b.z2)
        z2  == Sub(Mul(input, b.a2), Mul(b.b2, out))
    IN  [out |-> out, st |-> [b EXCEPT !.z1 = z1, !.z2 = z2]]

\* Biquad.Update
BiquadUpdate(b, input) ==
    LET out == Add(Mul(b.a0, input), b.z1)
        z1  == Sub(Add(Mul(input, b.a1), b.z2), Mul(b.b1, out))
        z2  == Sub(Mul(input, b.a2), Mul(b.b2, out))
    IN  [out |-> out, st |-> [b EXCEPT !.z1 = z1, !.z2 = z2]]

\* a clamp that limits the integral error on both sides
ClampBothSides(integralErr, IErrMax) ==
    IF Neq(IErrMax, Zero) /\ Gt(integralErr, IErrMax) THEN IErrMax
    ELSE IF Neq(IErrMax, Zero) /\ Lt(integralErr, Neg(IErrMax)) THEN Neg(IErrMax)
    ELSE integralErr

\* a clamp that never acts
ClampNever(integralErr, IErrMax) == integralErr

\* the anti-windup test of PID.Update
Clamp(integralErr, IErrMax) ==
    IF Neq(IErrMax, Zero) /\ Gt(integralErr, IErrMax) THEN IErrMax
    ELSE integralErr

\* an Update that returns its first input unchanged when nothing was recorded yet
PIDUpdateSeeded(p, input) ==
    IF p.input = Zero /\ p.output = Zero /\ p.prevErr = Zero /\ p.integralErr = Zero
    THEN [out |-> input, st |-> [p EXCEPT !.input = input, !.output = input]]
    ELSE LET err         == Sub(p.Setpt, input)
             integralErr == Clamp(Add(p.integralErr, Mul(err, p.DT)), p.IErrMax)
             derivative  == Div(Sub(err, p.prevErr), p.DT)
             output      == Add(Add(Mul(p.P, err), Mul(p.I, integralErr)),
                                Mul(p.D, derivative))
         IN  [out |-> output,
              st  |-> [p EXCEPT !.input = input, !.integralErr = integralErr,
                                !.output = output, !.prevErr = err]]

\* an Update whose derivative is taken against the error it has just stored
PIDUpdateStaleErr(p, input) ==
    LET err         == Sub(p.Setpt, input)
        integralErr == Clamp(Add(p.integralErr, Mul(err, p.DT)), p.IErrMax)
        derivative  == Div(Sub(err, err), p.DT)
        output      == Add(Add(Mul(p.P, err), Mul(p.I, integralErr)),
                           Mul(p.D, derivative))
    IN  [out |-> output,
         st  |-> [p EXCEPT !.input = input, !.integralErr = integralErr,
                           !.output = output, !.prevErr = err]]

\* PID.Update
PIDUpdate(p, input) ==
    LET err         == Sub(p.Setpt, input)
        integralErr == Clamp(Add(p.integralErr, Mul(err, p.DT)), p.IErrMax)
        derivative  == Div(Sub(err, p.prevErr), p.DT)
        output      == Add(Add(Mul(p.P, err), Mul(p.I, integralErr)),
                           Mul(p.D, derivative))
    IN  [out |-> output,
         st  |-> [p EXCEPT !.input = input, !.integralErr = integralErr,
                           !.output = output, !.prevErr = err]]

\* PID.Input
Input(p) == p.input

\* PID.Output
Output(p) == p.output

\* PID.IErr
IErr(p) == p.integralErr

\* a reset that also forgets the previous error
IntegralResetAll(p) == [p EXCEPT !.integralErr = Zero, !.prevErr = Zero]

\* PID.IntegralReset
IntegralReset(p) == [p EXCEPT !.integralErr = Zero]

\* the zero value PID{} with the exported fields set
NewPID(P, I, D, DT, IErrMax, Setpt) ==
    [kind |-> "PID", P |-> P, I |-> I, D |-> D, DT |-> DT, IErrMax |-> IErrMax,
     Setpt |-> Setpt, input |-> Zero, output |-> Zero, prevErr |-> Zero,
     integralErr |-> Zero]

\* Setpoint(target)
NewSetpoint(target) == [kind |-> "Setpoint", target |-> target]

\* NewLPF
NewLPF(cutoffFreq, dT) ==
    [kind |-> "LPF", DT |-> dT, fc |-> cutoffFreq,
     rc |-> Div(F(1), Mul(Mul(F(2), Pi), cutoffFreq)), prev |-> Zero]

\* NewHPF
NewHPF(cutoffFreq, dT) ==
    [kind |-> "HPF", DT |-> dT, fc |-> cutoffFreq,
     rc |-> Div(F(1), Mul(Mul(F(2), Pi), cutoffFreq)), prev |-> Zero]

\* NewBiquad
NewBiquad(a0, a1, a2, b1, b2) ==
    [kind |-> "Biquad", a0 |-> a0, a1 |-> a1, a2 |-> a2, b1 |-> b1, b2 |-> b2,
     z1 |-> Zero, z2 |-> Zero]

\* elem.Update(input) through the Updater interface
UpdaterUpdate(st, input) ==
    CASE st.kind = "Setpoint" -> SetpointUpdate(st, input)
      [] st.kind = "LPF"      -> LPFUpdate(st, input)
      [] st.kind = "HPF"      -> HPFUpdate(st, input)
      [] st.kind = "Biquad"   -> BiquadUpdate(st, input)
      [] st.kind = "PID"      -> PIDUpdate(st, input)

(***************************************************************************)
(* Cascade                                                                 *)
(***************************************************************************)
\* The chain holds pointers: indexes into the heap of stage objects.  log is
\* the sequence of Update calls made, as <<stage, argument>> pairs.
RECURSIVE CascadeLoop(_, _, _, _, _)
CascadeLoop(input, chain, i, heap, log) ==
    IF i > Len(chain) THEN [out |-> input, heap |-> heap, log |-> log]
    ELSE LET r == UpdaterUpdate(heap[chain[i]], input)
         IN  CascadeLoop(r.out, chain, i + 1,
                         [heap EXCEPT ![chain[i]] = r.st],
                         Append(log, <<chain[i], input>>))

\* a loop that hands the caller's input to every stage
RECURSIVE CascadeLoopSeeded(_, _, _, _, _, _)
CascadeLoopSeeded(input, last, chain, i, heap, log) ==
    IF i > Len(chain) THEN [out |-> last, heap |-> heap, log |-> log]
    ELSE LET r == UpdaterUpdate(heap[chain[i]], input)
         IN  CascadeLoopSeeded(input, r.out, chain, i + 1,
                               [heap EXCEPT ![chain[i]] = r.st],
                               Append(log, <<chain[i], input>>))

CascadeSeeded(input, chain, heap) ==
    CascadeLoopSeeded(input, input, chain, 1, heap, <<>>)

\* Cascade(input, chain...)
Cascade(input, chain, heap) == CascadeLoop(input, chain, 1, heap, <<>>)

\* the manual chain sn.Update(... s1.Update(x) ...) over the first n stages
RECURSIVE ManualChain(_, _, _, _)
ManualChain(x, chain, n, heap) ==
    IF n = 0 THEN [out |-> x, heap |-> heap]
    ELSE LET inner == ManualChain(x, chain, n - 1, heap)
             r     == UpdaterUpdate(inner.heap[chain[n]], inner.out)
         IN  [out |-> r.out, heap |-> [inner.heap EXCEPT ![chain[n]] = r.st]]

\* the stage objects a caller may construct
StageChoices ==
    { NewSetpoint(Norm(6, 5)),
      NewSetpoint(Norm(1, 3)),
      NewBiquad(F(1), F(2), F(1), F(-1), Norm(1, 2)),
      NewLPF(F(1), F(1)),
      NewPID(F(2), F(1), F(1), F(2), F(0), F(1)) }

Ptrs == 1..NStages

\* the argument lists chain... of a Cascade call: none, one or two stages
Chains ==
    {<<>>} \cup {<<a>> : a \in Ptrs} \cup {<<a, b>> : a \in Ptrs, b \in Ptrs}

CasInputs == {Norm(37, 12), F(-1)}

\* first holds the stages as they were constructed
CasCallNone ==
    [n |-> 0, input |-> Zero, chain |-> <<>>, out |-> Zero, log |-> <<>>,
     manOut |-> Zero, manStages |-> <<>>, pre |-> <<>>, first |-> <<>>]

\* one call got := Cascade(input, chain...), next to the manual chain
\* expect := sn.Update(...s1.Update(input)) run on a copy of the same stages
CascadeCall(input, chain) ==
    /\ casCall.n < MaxCalls
    /\ LET c == Cascade(input, chain, stages)
           m == ManualChain(input, chain, Len(chain), stages)
       IN  /\ stages' = c.heap
           /\ casCall' = [n |-> casCall.n + 1, input |-> input, chain |-> chain,
                          out |-> c.out, log |-> c.log, manOut |-> m.out,
                          manStages |-> m.heap, pre |-> stages,
                          first |-> casCall.first]

(***************************************************************************)
(* PID driven by a caller                                                  *)
(***************************************************************************)
PidGains == {F(2)} \X {F(0), F(1)} \X {F(0), F(1)}

PidDTs == {F(0), Norm(1, 2), F(1)}

PidIErrMaxs == {F(0), F(1), F(-1)}

PidSetpts == {F(-1), F(2)}

PidInputs == {F(-2), F(0), F(3)}

\* pidCall records the last operation: its name, argument and return value,
\* the PID before it (pre), the number of Updates so far and the error
\* Setpt - input of the Update before the last operation (lastErr)
PidCallNone ==
    [n |-> 0, op |-> "none", arg |-> Zero, ret |-> Zero, updates |-> 0,
     lastErr |-> Zero, pre |-> NewPID(Zero, Zero, Zero, Zero, Zero, Zero)]

\* the error of the most recent Update, as the caller saw it
PidLastErr ==
    IF pidCall.op = "Update" THEN Sub(pidCall.pre.Setpt, pidCall.arg)
    ELSE pidCall.lastErr

\* out := pid.Update(input)
PIDUpdateCall(input) ==
    /\ pidCall.n < MaxOps
    /\ LET r == PIDUpdate(pid, input)
       IN  /\ pid' = r.st
           /\ pidCall' = [n |-> pidCall.n + 1, op |-> "Update", arg |-> input,
                          ret |-> r.out, updates |-> pidCall.updates + 1,
                          lastErr |-> PidLastErr, pre |-> pid]

\* pid.IntegralReset()
PIDIntegralResetCall ==
    /\ pidCall.n < MaxOps
    /\ pid' = IntegralReset(pid)
    /\ pidCall' = [pidCall EXCEPT !.n = @ + 1, !.op = "IntegralReset",
                                  !.arg = Zero, !.ret = Zero,
                                  !.lastErr = PidLastErr, !.pre = pid]

\* pid.Setpt = s, the caller moving the setpoint
PIDSetSetpt(s) ==
    /\ pidCall.n < MaxOps
    /\ pid.Setpt # s
    /\ pid' = [pid EXCEPT !.Setpt = s]
    /\ pidCall' = [pidCall EXCEPT !.n = @ + 1, !.op = "Setpt", !.arg = s,
                                  !.ret = Zero, !.lastErr = PidLastErr,
                                  !.pre = pid]

(***************************************************************************)
(* TestPIDConverges: a P-only PID closed around a loss-free integrator     *)
(***************************************************************************)
LoopDTs == {F(0), Norm(1, 1000), F(1)}

LoopSeeds == {F(0), F(-1), F(2)}

LoopSetpts == {F(1), F(-2), F(3)}

\* the tolerance 1e-5 of the test
Tolerance == Norm(1, 100000)

\* math.Abs
FAbs(a) == <<Abs(a[1]), a[2]>>

\* state := ctl.Update(0)
LoopSeed ==
    /\ loop.pc = "seed"
    /\ LET r == PIDUpdate(loop.ctl, loop.seed)
       IN  loop' = [loop EXCEPT !.ctl = r.st, !.state = r.out, !.pc = "setpt"]

\* ctl.Setpt = 1.
LoopSetpt ==
    /\ loop.pc = "setpt"
    /\ loop' = [loop EXCEPT !.ctl.Setpt = loop.target, !.pc = "iter"]

\* one iteration: cmd = ctl.Update(state); state += cmd
LoopIterate ==
    /\ loop.pc = "iter"
    /\ LET r == PIDUpdate(loop.ctl, loop.state)
       IN  loop' = [loop EXCEPT !.ctl = r.st, !.cmd = r.out,
                                !.state = Add(loop.state, r.out),
                                !.i = @ + 1,
                                !.pc = IF loop.i + 1 < Iterations THEN "iter"
                                       ELSE "done"]

LoopNone ==
    [pc |-> "off", ctl |-> NewPID(Zero, Zero, Zero, Zero, Zero, Zero),
     seed |-> Zero, target |-> Zero, state |-> Zero, cmd |-> Zero, i |-> 0]

(***************************************************************************)
(* FIRFilter                                                               *)
(***************************************************************************)
\* reverse reverses x in place
RECURSIVE reverseLoop(_, _, _)
reverseLoop(x, i, j) ==
    IF i < j
    THEN reverseLoop([x EXCEPT ![i] = x[j], ![j] = x[i]], i + 1, j - 1)
    ELSE x

reverse(x) == reverseLoop(x, 1, Len(x))

\* NewFIRFilter: h is two copies of the reversed taps, x the zeroed history
NewFIRFilter(taps) ==
    LET h == reverse(taps)
    IN  [j |-> 0, h |-> h \o h, x |-> [i \in 1..Len(taps) |-> Zero]]

\* out += x * h[i] over the history, in index order
RECURSIVE firDot(_, _, _, _)
firDot(xn, h, i, out) ==
    IF i > Len(xn) THEN out
    ELSE firDot(xn, h, i + 1, Add(out, Mul(xn[i], h[i])))

\* an Update that takes the window of h before advancing j
FIRUpdateEarlyWindow(f, input) ==
    LET l  == Len(f.x)
        xn == [f.x EXCEPT ![f.j + 1] = input]
        j  == IF f.j + 1 >= l THEN 0 ELSE f.j + 1
        h0 == l - f.j
        h  == SubSeq(f.h, h0 + 1, h0 + l)
    IN  [out |-> firDot(xn, h, 1, Zero), st |-> [f EXCEPT !.x = xn, !.j = j],
         panic |-> FALSE]

\* an Update that advances j without wrapping it
FIRUpdateNoWrap(f, input) ==
    LET l  == Len(f.x)
        xn == [f.x EXCEPT ![f.j + 1] = input]
        j  == f.j + 1
        h0 == l - j
        h  == SubSeq(f.h, h0 + 1, h0 + l)
    IN  IF f.j >= l THEN [out |-> Zero, st |-> f, panic |-> TRUE]
        ELSE [out |-> firDot(xn, h, 1, Zero),
              st |-> [f EXCEPT !.x = xn, !.j = j], panic |-> FALSE]

\* FIRFilter.Update; j and h0 are the 0-based indexes of the code.  panic is
\* the run-time failure of xn[j] = input (index out of range) or of
\* f.h[h0 : h0+l] (slice bounds out of range); st is the filter as the
\* failing statement leaves it
FIRUpdate(f, input) ==
    LET l  == Len(f.x)
        xn == [f.x EXCEPT ![f.j + 1] = input]
        j  == IF f.j + 1 >= l THEN 0 ELSE f.j + 1
        h0 == l - j
        h  == SubSeq(f.h, h0 + 1, h0 + l)
    IN  IF f.j >= l THEN [out |-> Zero, st |-> f, panic |-> TRUE]
        ELSE IF h0 + l > Len(f.h)
             THEN [out |-> Zero, st |-> [f EXCEPT !.x = xn, !.j = j],
                   panic |-> TRUE]
        ELSE [out |-> firDot(xn, h, 1, Zero),
              st |-> [f EXCEPT !.x = xn, !.j = j], panic |-> FALSE]

\* a Reset that clears the history below the write index only
FIRResetBelowIndex(f) ==
    [f EXCEPT !.x = [i \in 1..Len(f.x) |-> IF i <= f.j THEN Zero ELSE f.x[i]]]

\* FIRFilter.Reset
FIRReset(f) == [f EXCEPT !.x = [i \in 1..Len(f.x) |-> Zero]]

RECURSIVE SeqsOver(_, _)
SeqsOver(S, n) ==
    IF n = 0 THEN {<<>>}
    ELSE {Append(t, v) : t \in SeqsOver(S, n - 1), v \in S}

\* the tap vectors: every 0/1 vector of up to MaxTaps taps, the empty vector
\* included, and two vectors of distinct weights
FirTaps ==
    UNION {SeqsOver({F(0), F(1)}, n) : n \in 0..MaxTaps}
      \cup {<<F(2), F(-1), Norm(1, 2)>>, <<F(1), F(2), F(3), F(5)>>}

FirInputs == {Norm(157, 50), F(-3)}

FirNone == [j |-> 0, h |-> <<>>, x |-> <<>>]

\* firCall records the taps given to the constructor, the inputs u since
\* construction or the last Reset, the last operation ("UpdatePanic" for an
\* Update that failed at run time) and return value, the filter pre as it
\* was before the last operation, and from the first Reset on a filter twin
\* constructed afresh from taps at the last Reset and given the same inputs
\* since, with its last return value twinOut
FirCallNone ==
    [n |-> 0, op |-> "none", taps |-> <<>>, u |-> <<>>, out |-> Zero,
     pre |-> FirNone, twin |-> FirNone, twinOut |-> Zero]

\* out := f.Update(input); nothing runs after a run-time failure
FIRUpdateCall(input) ==
    /\ firCall.n < MaxFirOps
    /\ firCall.op # "UpdatePanic"
    /\ LET r == FIRUpdate(fir, input)
           t == IF firCall.twin = FirNone
                THEN [out |-> Zero, st |-> firCall.twin]
                ELSE FIRUpdate(firCall.twin, input)
       IN  /\ fir' = r.st
           /\ firCall' = [firCall EXCEPT
                             !.n = @ + 1,
                             !.op = IF r.panic THEN "UpdatePanic" ELSE "Update",
                             !.u = Append(@, input), !.out = r.out,
                             !.pre = fir, !.twin = t.st, !.twinOut = t.out]

\* f.Reset()
FIRResetCall ==
    /\ firCall.n < MaxFirOps
    /\ firCall.op # "UpdatePanic"
    /\ fir' = FIRReset(fir)
    /\ firCall' = [firCall EXCEPT !.n = @ + 1, !.op = "Reset", !.u = <<>>,
                                  !.out = Zero, !.pre = fir,
                                  !.twin = NewFIRFilter(firCall.taps),
                                  !.twinOut = Zero]

(***************************************************************************)
(* StateSpaceFilter                                                        *)
(***************************************************************************)
\* The slices x and scratch are pointers into mem, the backing arrays.

\* vectorDot
RECURSIVE vectorDotLoop(_, _, _, _)
vectorDotLoop(a, b, i, out) ==
    IF i > Len(a) THEN out
    ELSE vectorDotLoop(a, b, i + 1, Add(out, Mul(a[i], b[i])))

vectorDot(a, b) == vectorDotLoop(a, b, 1, Zero)

\* the inner loop of vectorMatrixProductSumScale: out[i] += A[i][j] * x[j]
RECURSIVE vmpInner(_, _, _, _, _, _, _)
vmpInner(mem, x, A, out, i, j, n) ==
    IF j > n THEN mem
    ELSE vmpInner([mem EXCEPT ![out][i] = Add(@, Mul(A[i][j], mem[x][j]))],
                  x, A, out, i, j + 1, n)

\* the outer loop: out[i] = 0, the inner loop, out[i] += B[i] * y
RECURSIVE vmpOuter(_, _, _, _, _, _, _)
vmpOuter(mem, x, A, B, y, out, i) ==
    IF i > Len(A) THEN mem
    ELSE LET m0 == [mem EXCEPT ![out][i] = Zero]
             m1 == vmpInner(m0, x, A, out, i, 1, Len(mem[x]))
             m2 == [m1 EXCEPT ![out][i] = Add(@, Mul(B[i], y))]
         IN  vmpOuter(m2, x, A, B, y, out, i + 1)

\* vectorMatrixProductSumScale(x, A, B, y, out); the result is the memory
\* after the call.  A nil out is the pointer 0: a fresh slice of len(A) is
\* allocated for it.
vectorMatrixProductSumScale(mem, x, A, B, y, out) ==
    IF out = 0
    THEN vmpOuter(Append(mem, [i \in 1..Len(A) |-> Zero]), x, A, B, y,
                  Len(mem) + 1, 1)
    ELSE vmpOuter(mem, x, A, B, y, out, 1)

\* NewStateSpaceFilter; initCond is <<>> for nil
NewStateSpaceFilter(A, B, C, D, initCond) ==
    [x |-> 1, scratch |-> 2, a |-> A, b |-> B, c |-> C, d |-> D,
     mem |-> << IF initCond = <<>> THEN [i \in 1..Len(B) |-> Zero] ELSE initCond,
                [i \in 1..Len(B) |-> Zero] >>]

\* an Update that writes the new state over the old one
StateSpaceUpdateInPlace(s, input) ==
    LET mem == vectorMatrixProductSumScale(s.mem, s.x, s.a, s.b, input, s.x)
        out == Add(vectorDot(mem[s.x], s.c), Mul(s.d, input))
    IN  [out |-> out, st |-> [s EXCEPT !.mem = mem]]

\* an Update that passes a nil out, so that the new state is allocated
StateSpaceUpdateAllocating(s, input) ==
    LET mem == vectorMatrixProductSumScale(s.mem, s.x, s.a, s.b, input, 0)
        out == Add(vectorDot(mem[s.x], s.c), Mul(s.d, input))
    IN  [out |-> out,
         st  |-> [s EXCEPT !.mem = mem, !.x = Len(mem), !.scratch = s.x]]

\* StateSpaceFilter.Update
StateSpaceUpdate(s, input) ==
    LET mem == vectorMatrixProductSumScale(s.mem, s.x, s.a, s.b, input, s.scratch)
        out == Add(vectorDot(mem[s.x], s.c), Mul(s.d, input))
    IN  [out |-> out,
         st  |-> [s EXCEPT !.mem = mem, !.x = s.scratch, !.scratch = s.x]]

\* StateSpaceFilter.Reset
RECURSIVE StateSpaceResetLoop(_, _, _, _)
StateSpaceResetLoop(mem, x, scratch, i) ==
    IF i > Len(mem[x]) THEN mem
    ELSE StateSpaceResetLoop([[mem EXCEPT ![x][i] = Zero]
                                     EXCEPT ![scratch][i] = Zero],
                             x, scratch, i + 1)

\* a Reset that zeros only the scratch buffer
StateSpaceResetScratchOnly(s) ==
    [s EXCEPT !.mem[s.scratch] = [i \in 1..Len(s.mem[s.scratch]) |-> Zero]]

StateSpaceReset(s) ==
    [s EXCEPT !.mem = StateSpaceResetLoop(s.mem, s.x, s.scratch, 1)]

\* the systems: the two-state system of the tests with rounder numbers, a
\* two-state system with a full A, and a one-state system
SsSystems ==
    { [A |-> <<<<F(2), F(-1)>>, <<F(1), F(0)>>>>, B |-> <<Norm(1, 2), F(0)>>,
       C |-> <<F(4), Norm(1, 50)>>, D |-> Norm(1, 2)],
      [A |-> <<<<F(0), F(1)>>, <<F(1), F(1)>>>>, B |-> <<F(1), F(2)>>,
       C |-> <<F(1), F(-1)>>, D |-> F(0)],
      [A |-> <<<<Norm(1, 2)>>>>, B |-> <<F(1)>>, C |-> <<F(3)>>, D |-> F(1)] }

\* the initial conditions for n states: nil, or a non-zero vector
SsInitConds(n) == {<<>>, [i \in 1..n |-> F(2 * i - 3)]}

SsInputs == {F(1), F(-2)}

SsfNone ==
    [x |-> 1, scratch |-> 2, a |-> <<>>, b |-> <<>>, c |-> <<>>, d |-> Zero,
     mem |-> <<<<>>, <<>>>>]

\* ssfCall records the state x0 at construction or after the last Reset, the
\* inputs u since then, the last operation and return value, the filter pre
\* as it was before the last operation, and from the first Reset on a filter
\* twin constructed afresh at the last Reset (nil initial condition) and
\* given the same inputs since, with its last return value twinOut
SsfCallNone ==
    [n |-> 0, op |-> "none", x0 |-> <<>>, u |-> <<>>, out |-> Zero,
     pre |-> SsfNone, twin |-> SsfNone, twinOut |-> Zero]

\* out := s.Update(input)
StateSpaceUpdateCall(input) ==
    /\ ssfCall.n < MaxSsOps
    /\ LET r == StateSpaceUpdate(ssf, input)
           t == IF ssfCall.twin = SsfNone THEN [out |-> Zero, st |-> SsfNone]
                ELSE StateSpaceUpdate(ssfCall.twin, input)
       IN  /\ ssf' = r.st
           /\ ssfCall' = [ssfCall EXCEPT !.n = @ + 1, !.op = "Update",
                                         !.u = Append(@, input), !.out = r.out,
                                         !.pre = ssf, !.twin = t.st,
                                         !.twinOut = t.out]

\* s.Reset()
StateSpaceResetCall ==
    /\ ssfCall.n < MaxSsOps
    /\ ssf' = StateSpaceReset(ssf)
    /\ ssfCall' = [ssfCall EXCEPT !.n = @ + 1, !.op = "Reset",
                                  !.x0 = [i \in 1..Len(ssf.b) |-> Zero],
                                  !.u = <<>>, !.out = Zero, !.pre = ssf,
                                  !.twin = NewStateSpaceFilter(ssf.a, ssf.b,
                                                 ssf.c, ssf.d, <<>>),
                                  !.twinOut = Zero]

(***************************************************************************)
(* Two StateSpaceFilters constructed from the same argument slices         *)
(***************************************************************************)
\* NewStateSpaceFilter for a non-nil initCond, the slice at initCond in the
\* caller's memory: x is that slice, scratch a new array
NewStateSpaceFilterAt(mem, A, B, C, D, initCond) ==
    [x |-> initCond, scratch |-> Len(mem) + 1, a |-> A, b |-> B, c |-> C,
     d |-> D, mem |-> Append(mem, [i \in 1..Len(B) |-> Zero])]

\* the filter s with its slices in the memory mem
OnHeap(s, mem) == [s EXCEPT !.mem = mem]

\* share holds the memory mem common to the caller and the two filters
\* f[1], f[2] (their own mem fields are unused), the caller's slice ic0 as it
\* was passed, and the last call: filter k, its return value out, and the
\* return value iso of the same calls on filters iso[1], iso[2] that were
\* each given a private copy of the initial condition
ShareNone ==
    [n |-> 0, op |-> "none", k |-> 1, mem |-> <<>>, f |-> <<>>, ic0 |-> <<>>,
     iso |-> <<>>, out |-> Zero, isoOut |-> Zero]

\* ic := []float64{...}; f1 := NewStateSpaceFilter(A, B, C, D, ic);
\* f2 := NewStateSpaceFilter(A, B, C, D, ic)
ShareConstruct(sys, ic) ==
    LET f1 == NewStateSpaceFilterAt(<<ic>>, sys.A, sys.B, sys.C, sys.D, 1)
        f2 == NewStateSpaceFilterAt(f1.mem, sys.A, sys.B, sys.C, sys.D, 1)
        g  == NewStateSpaceFilter(sys.A, sys.B, sys.C, sys.D, ic)
    IN  [ShareNone EXCEPT !.mem = f2.mem,
                          !.f = <<OnHeap(f1, <<>>), OnHeap(f2, <<>>)>>,
                          !.ic0 = ic, !.iso = <<g, g>>]

\* out := fk.Update(input)
ShareUpdateCall(k, input) ==
    /\ share.n < MaxShareOps
    /\ LET r == StateSpaceUpdate(OnHeap(share.f[k], share.mem), input)
           g == StateSpaceUpdate(share.iso[k], input)
       IN  share' = [share EXCEPT !.n = @ + 1, !.op = "Update", !.k = k,
                                  !.mem = r.st.mem,
                                  !.f[k] = OnHeap(r.st, <<>>),
                                  !.iso[k] = g.st,
                                  !.out = r.out, !.isoOut = g.out]

\* fk.Reset()
ShareResetCall(k) ==
    /\ share.n < MaxShareOps
    /\ LET r == StateSpaceReset(OnHeap(share.f[k], share.mem))
       IN  share' = [share EXCEPT !.n = @ + 1, !.op = "Reset", !.k = k,
                                  !.mem = r.mem,
                                  !.f[k] = OnHeap(r, <<>>),
                                  !.iso[k] = StateSpaceReset(@),
                                  !.out = Zero, !.isoOut = Zero]

(***************************************************************************)
(* Biquad synthesis                                                        *)
(***************************************************************************)
\* math.Tan at the arguments Pi * Fc in use: tan(pi/4), tan(pi/8), tan(pi/16)
\* to one or two digits
Tan(a) ==
    CASE a = Norm(25, 32) -> F(1)
      [] a = Norm(25, 64) -> Norm(2, 5)
      [] a = Norm(25, 128) -> Norm(1, 5)
      [] OTHER -> NaN

\* math.Pow(10, y) at the exponents |g|/20 in use: 10^0, 10^0.3, 10^1
Pow(x, y) ==
    CASE x = F(10) /\ y = F(0) -> F(1)
      [] x = F(10) /\ y = Norm(3, 10) -> F(2)
      [] x = F(10) /\ y = F(1) -> F(10)
      [] OTHER -> NaN

\* math.Sqrt at the arguments 2 and 2*V in use, to two digits
Sqrt(a) ==
    CASE a = F(2) -> Norm(7, 5)
      [] a = F(4) -> F(2)
      [] a = F(20) -> Norm(9, 2)
      [] OTHER -> NaN

\* math.Abs
MathAbs(a) == CHOOSE r \in {IF Lt(x, Zero) THEN Neg(x) ELSE x : x \in {a}} : TRUE

\* a low-pass synthesis that applies the gain
NewBiquadLowpassGain(Fs, f, Q, g) ==
    LET Fc   == Div(f, Fs)
        V    == Pow(F(10), Div(MathAbs(g), F(20)))
        K    == Tan(Mul(Pi, Fc))
        norm == Div(F(1), Add(Add(F(1), Div(K, Q)), Mul(K, K)))
        a0   == Mul(Mul(Mul(V, K), K), norm)
        a1   == Mul(F(2), a0)
        a2   == a0
        b1   == Mul(Mul(F(2), Sub(Mul(K, K), F(1))), norm)
        b2   == Mul(Add(Sub(F(1), Div(K, Q)), Mul(K, K)), norm)
    IN  NewBiquad(a0, a1, a2, b1, b2)

NewBiquadLowpass(Fs, f, Q, g) ==
    LET Fc   == Div(f, Fs)
        K    == Tan(Mul(Pi, Fc))
        norm == Div(F(1), Add(Add(F(1), Div(K, Q)), Mul(K, K)))
        a0   == Mul(Mul(K, K), norm)
        a1   == Mul(F(2), a0)
        a2   == a0
        b1   == Mul(Mul(F(2), Sub(Mul(K, K), F(1))), norm)
        b2   == Mul(Add(Sub(F(1), Div(K, Q)), Mul(K, K)), norm)
    IN  NewBiquad(a0, a1, a2, b1, b2)

NewBiquadHighpass(Fs, f, Q, g) ==
    LET Fc   == Div(f, Fs)
        K    == Tan(Mul(Pi, Fc))
        norm == Div(F(1), Add(Add(F(1), Div(K, Q)), Mul(K, K)))
        a0   == norm
        a1   == Mul(F(-2), a0)
        a2   == a0
        b1   == Mul(Mul(F(2), Sub(Mul(K, K), F(1))), norm)
        b2   == Mul(Add(Sub(F(1), Div(K, Q)), Mul(K, K)), norm)
    IN  NewBiquad(a0, a1, a2, b1, b2)

NewBiquadBandpass(Fs, f, Q, g) ==
    LET Fc   == Div(f, Fs)
        K    == Tan(Mul(Pi, Fc))
        norm == Div(F(1), Add(Add(F(1), Div(K, Q)), Mul(K, K)))
        a0   == Mul(Div(K, Q), norm)
        a1   == Zero
        a2   == Neg(a0)
        b1   == Mul(Mul(F(2), Sub(Mul(K, K), F(1))), norm)
        b2   == Mul(Add(Sub(F(1), Div(K, Q)), Mul(K, K)), norm)
    IN  NewBiquad(a0, a1, a2, b1, b2)

NewBiquadNotch(Fs, f, Q, g) ==
    LET Fc   == Div(f, Fs)
        K    == Tan(Mul(Pi, Fc))
        norm == Div(F(1), Add(Add(F(1), Div(K, Q)), Mul(K, K)))
        a0   == Mul(Add(F(1), Mul(K, K)), norm)
        a1   == Mul(Mul(F(2), Sub(Mul(K, K), F(1))), norm)
        a2   == a0
        b1   == a1
        b2   == Mul(Add(Sub(F(1), Div(K, Q)), Mul(K, K)), norm)
    IN  NewBiquad(a0, a1, a2, b1, b2)

\* 1 + w*K + K*K and 1 - w*K + K*K, the polynomials of the peak filter
PeakPlus(w, K) == Add(Add(F(1), Mul(w, K)), Mul(K, K))

PeakMinus(w, K) == Add(Sub(F(1), Mul(w, K)), Mul(K, K))

\* a peak synthesis without the cut branch
NewBiquadPeakBoostOnly(Fs, f, Q, g) ==
    LET Fc   == Div(f, Fs)
        V    == Pow(F(10), Div(MathAbs(g), F(20)))
        K    == Tan(Mul(Pi, Fc))
        norm == Div(F(1), PeakPlus(Div(F(1), Q), K))
        a1   == Mul(Mul(F(2), Sub(Mul(K, K), F(1))), norm)
    IN  NewBiquad(Mul(PeakPlus(Div(V, Q), K), norm), a1,
                  Mul(PeakMinus(Div(V, Q), K), norm), a1,
                  Mul(PeakMinus(Div(F(1), Q), K), norm))

NewBiquadPeak(Fs, f, Q, g) ==
    LET Fc == Div(f, Fs)
        V  == Pow(F(10), Div(MathAbs(g), F(20)))
        K  == Tan(Mul(Pi, Fc))
    IN  IF Le(Zero, g)
        THEN LET norm == Div(F(1), PeakPlus(Div(F(1), Q), K))
                 a1   == Mul(Mul(F(2), Sub(Mul(K, K), F(1))), norm)
             IN  NewBiquad(Mul(PeakPlus(Div(V, Q), K), norm), a1,
                           Mul(PeakMinus(Div(V, Q), K), norm), a1,
                           Mul(PeakMinus(Div(F(1), Q), K), norm))
        ELSE LET norm == Div(F(1), PeakPlus(Div(V, Q), K))
                 a1   == Mul(Mul(F(2), Sub(Mul(K, K), F(1))), norm)
             IN  NewBiquad(Mul(PeakPlus(Div(F(1), Q), K), norm), a1,
                           Mul(PeakMinus(Div(F(1), Q), K), norm), a1,
                           Mul(PeakMinus(Div(V, Q), K), norm))

\* 1 + r*K + v*K*K and 1 - r*K + v*K*K, the polynomials of the low shelf
LowShelfPlus(r, v, K) == Add(Add(F(1), Mul(r, K)), Mul(Mul(v, K), K))

LowShelfMinus(r, v, K) == Add(Sub(F(1), Mul(r, K)), Mul(Mul(v, K), K))

NewBiquadLowShelf(Fs, f, Q, g) ==
    LET Fc == Div(f, Fs)
        V  == Pow(F(10), Div(MathAbs(g), F(20)))
        K  == Tan(Mul(Pi, Fc))
        r1 == Sqrt(F(2))
        rV == Sqrt(Mul(F(2), V))
    IN  IF Le(Zero, g)
        THEN LET norm == Div(F(1), LowShelfPlus(r1, F(1), K))
             IN  NewBiquad(
                   Mul(LowShelfPlus(rV, V, K), norm),
                   Mul(Mul(F(2), Sub(Mul(Mul(V, K), K), F(1))), norm),
                   Mul(LowShelfMinus(rV, V, K), norm),
                   Mul(Mul(F(2), Sub(Mul(K, K), F(1))), norm),
                   Mul(LowShelfMinus(r1, F(1), K), norm))
        ELSE LET norm == Div(F(1), LowShelfPlus(rV, V, K))
             IN  NewBiquad(
                   Mul(LowShelfPlus(r1, F(1), K), norm),
                   Mul(Mul(F(2), Sub(Mul(K, K), F(1))), norm),
                   Mul(LowShelfMinus(r1, F(1), K), norm),
                   Mul(Mul(F(2), Sub(Mul(Mul(V, K), K), F(1))), norm),
                   Mul(LowShelfMinus(rV, V, K), norm))

\* v + r*K + K*K and v - r*K + K*K, the polynomials of the high shelf
HighShelfPlus(r, v, K) == Add(Add(v, Mul(r, K)), Mul(K, K))

HighShelfMinus(r, v, K) == Add(Sub(v, Mul(r, K)), Mul(K, K))

NewBiquadHighShelf(Fs, f, Q, g) ==
    LET Fc == Div(f, Fs)
        V  == Pow(F(10), Div(MathAbs(g), F(20)))
        K  == Tan(Mul(Pi, Fc))
        r1 == Sqrt(F(2))
        rV == Sqrt(Mul(F(2), V))
    IN  IF Le(Zero, g)
        THEN LET norm == Div(F(1), HighShelfPlus(r1, F(1), K))
             IN  NewBiquad(
                   Mul(HighShelfPlus(rV, V, K), norm),
                   Mul(Mul(F(2), Sub(Mul(K, K), V)), norm),
                   Mul(HighShelfMinus(rV, V, K), norm),
                   Mul(Mul(F(2), Sub(Mul(K, K), F(1))), norm),
                   Mul(HighShelfMinus(r1, F(1), K), norm))
        ELSE LET norm == Div(F(1), HighShelfPlus(rV, V, K))
             IN  NewBiquad(
                   Mul(HighShelfPlus(r1, F(1), K), norm),
                   Mul(Mul(F(2), Sub(Mul(K, K), F(1))), norm),
                   Mul(HighShelfMinus(r1, F(1), K), norm),
                   Mul(Mul(F(2), Sub(Mul(K, K), V)), norm),
                   Mul(HighShelfMinus(rV, V, K), norm))

\* a NewBiquadFunc by name
NewBiquadFunc(kind, Fs, f, Q, g) ==
    CASE kind = "Lowpass" -> NewBiquadLowpass(Fs, f, Q, g)
      [] kind = "Highpass" -> NewBiquadHighpass(Fs, f, Q, g)
      [] kind = "Bandpass" -> NewBiquadBandpass(Fs, f, Q, g)
      [] kind = "Notch" -> NewBiquadNotch(Fs, f, Q, g)
      [] kind = "Peak" -> NewBiquadPeak(Fs, f, Q, g)
      [] kind = "LowShelf" -> NewBiquadLowShelf(Fs, f, Q, g)
      [] kind = "HighShelf" -> NewBiquadHighShelf(Fs, f, Q, g)

BqKinds ==
    {"Lowpass", "Highpass", "Bandpass", "Notch", "Peak", "LowShelf", "HighShelf"}

\* sample rate and corner frequency: Fc = 1/4, 1/8, 1/16
BqRates == {<<F(4), F(1)>>, <<F(8), F(1)>>, <<F(32), F(2)>>}

BqQs == {Norm(7, 10), F(2)}

\* pairs of gains in dB: a boost and its cut, and unrelated gains
BqGains ==
    {<<F(0), F(0)>>, <<F(6), F(-6)>>, <<F(20), F(-20)>>, <<F(20), F(-6)>>,
     <<F(-20), F(6)>>, <<F(0), F(20)>>, <<F(-6), F(0)>>}

BqInputs == {F(1), F(-3)}

\* bq holds two filters b[1], b[2] synthesised by the same function from the
\* same Fs, f, Q and the gains g[1], g[2], the inputs u given to both, and
\* their last return values out[1], out[2]
BqNone ==
    [n |-> 0, kind |-> "none", Fs |-> Zero, f |-> Zero, Q |-> Zero,
     g |-> <<Zero, Zero>>, b |-> <<>>, u |-> <<>>, out |-> <<Zero, Zero>>]

\* b1 := New(Fs, f, Q, g1); b2 := New(Fs, f, Q, g2)
BqConstruct(kind, Fs, f, Q, g1, g2) ==
    [BqNone EXCEPT !.kind = kind, !.Fs = Fs, !.f = f, !.Q = Q,
                   !.g = <<g1, g2>>,
                   !.b = <<NewBiquadFunc(kind, Fs, f, Q, g1),
                           NewBiquadFunc(kind, Fs, f, Q, g2)>>]

\* o1 := b1.Update(input); o2 := b2.Update(input)
BqUpdateCall(input) ==
    /\ bq.n < MaxBqOps
    /\ LET r1 == BiquadUpdate(bq.b[1], input)
           r2 == BiquadUpdate(bq.b[2], input)
       IN  bq' = [bq EXCEPT !.n = @ + 1, !.b = <<r1.st, r2.st>>,
                            !.u = Append(@, input),
                            !.out = <<r1.out, r2.out>>]

(***************************************************************************)
(* Two Setpoints cascaded in both orders                                   *)
(***************************************************************************)
\* the constants of TestCascade and others, before their conversion to
\* float64
OrdTargets == {Norm(6, 5), Norm(1, 3), F(-2), Norm(1, 10)}

OrdInputs == {Norm(37, 12), F(1), Norm(5, 2), Norm(-7, 3)}

\* ord holds the stages s[1], s[2], the last input, and the values out12 of
\* Cascade(input, s1, s2) and out21 of Cascade(input, s2, s1)
OrdNone ==
    [n |-> 0, s |-> <<>>, input |-> Zero, out12 |-> Zero, out21 |-> Zero]

\* got12 := Cascade(x, s1, s2); got21 := Cascade(x, s2, s1), x the float64
\* nearest to the constant raw
OrdCall(raw) ==
    /\ ord.n < MaxOrdCalls
    /\ LET x   == Fl(raw)
           c12 == Cascade(x, <<1, 2>>, ord.s)
           c21 == Cascade(x, <<2, 1>>, c12.heap)
       IN  ord' = [ord EXCEPT !.n = @ + 1, !.s = c21.heap, !.input = x,
                              !.out12 = c12.out, !.out21 = c21.out]

(***************************************************************************)
(* LPF driven by a caller                                                  *)
(***************************************************************************)
\* the constants of TestLowPassFilterAsymptotic
LpfTest == <<F(1000000), Norm(1, 1000)>>

\* corner frequency and DT: TestLowPassFilterAsymptotic, and two filters of
\* longer time constants (alpha = 25/29 and 63/64 in exact arithmetic)
LpfParams ==
    {LpfTest, <<F(1), F(1)>>, <<Norm(4, 25), F(63)>>}

\* the input levels
LpfInputs == {F(0), F(1), F(-2)}

\* lpf holds the filter f, the constants q it was constructed from, the
\* inputs us of its Updates, the last return value out, and the filter pre
\* as it was before the last Update
LpfNone ==
    [n |-> 0, f |-> [kind |-> "none"], q |-> <<>>, us |-> <<>>, out |-> Zero,
     pre |-> [kind |-> "none"]]

\* out := l.Update(input)
LPFUpdateCall(input) ==
    /\ lpf.n < MaxLpfOps
    /\ lpf.f.prev[2] <= MaxDen
    /\ LET r == LPFUpdate(lpf.f, input)
       IN  lpf' = [lpf EXCEPT !.n = @ + 1, !.f = r.st, !.us = Append(@, input),
                              !.out = r.out, !.pre = lpf.f]

(***************************************************************************)
(* Two HPFs driven by different inputs                                     *)
(***************************************************************************)
\* corner frequency and DT: TestHighPassRejectsOscillation, and filters of
\* longer time constants
HpfParams ==
    {<<F(1000000), Norm(1, 1000)>>, <<F(1), F(1)>>, <<Norm(4, 25), Norm(1, 2)>>,
     <<F(1), Norm(1, 4)>>}

HpfInputs == {F(0), F(1), F(-3)}

\* hpf holds two filters h[1], h[2] of the same corner frequency and DT, the
\* inputs us[1], us[2] of their Updates, their last return values out[1],
\* out[2], and the filters pre as they were before the last Updates
HpfNone ==
    [n |-> 0, h |-> <<>>, us |-> <<<<>>, <<>>>>, out |-> <<Zero, Zero>>,
     pre |-> <<>>]

\* o1 := h1.Update(in1); o2 := h2.Update(in2)
HPFUpdateCall(in1, in2) ==
    /\ hpf.n < MaxHpfOps
    /\ hpf.h[1].prev[2] <= MaxDen
    /\ hpf.h[2].prev[2] <= MaxDen
    /\ LET r1 == HPFUpdate(hpf.h[1], in1)
           r2 == HPFUpdate(hpf.h[2], in2)
       IN  hpf' = [hpf EXCEPT !.n = @ + 1, !.h = <<r1.st, r2.st>>,
                              !.us = <<Append(@[1], in1), Append(@[2], in2)>>,
                              !.out = <<r1.out, r2.out>>, !.pre = hpf.h]

(***************************************************************************)
(* TestHighPassRejectsOscillation                                          *)
(***************************************************************************)
\* hpf := NewHPF(1e6, 1e-3)
HpfTest == <<F(1000000), Norm(1, 1000)>>

\* corner frequency and DT: the filter of the test, and filters of longer
\* time constants
HptParams ==
    {HpfTest, <<F(1), F(1)>>, <<Norm(4, 25), F(1)>>, <<Norm(4, 25), F(3)>>,
     <<F(100), Norm(1, 10)>>}

\* target := 1. , and other step heights
HptTargets == {F(1), F(-3), Norm(1, 2)}

\* for i := 0; i < 5; i++
HpfSteps == 5

\* hpt holds the position pc in the test, the filter h, the constants q it was
\* constructed from, the step height target, the loop counter i, the local
\* process, every return value of Update so far in outs, and the verdict
HptNone ==
    [pc |-> "idle", h |-> [kind |-> "none"], q |-> <<>>, target |-> Zero,
     i |-> 0, process |-> Zero, outs |-> <<>>, failed |-> FALSE]

\* process := hpf.Update(0)
HptSeed ==
    /\ hpt.pc = "seed"
    /\ LET r == HPFUpdate(hpt.h, Zero)
       IN  hpt' = [hpt EXCEPT !.pc = "loop", !.h = r.st, !.process = r.out,
                              !.outs = Append(@, r.out)]

\* process = hpf.Update(target) ; i++
HptIterate ==
    /\ hpt.pc = "loop"
    /\ hpt.i < HpfSteps
    /\ prec # 0 \/ hpt.h.prev[2] <= MaxDen
    /\ LET r == HPFUpdate(hpt.h, hpt.target)
       IN  hpt' = [hpt EXCEPT !.i = @ + 1, !.h = r.st, !.process = r.out,
                              !.outs = Append(@, r.out)]

\* err := 0 - process ; if math.Abs(err) > 1e-5 { t.Errorf(...) }
HptCheck ==
    /\ hpt.pc = "loop"
    /\ hpt.i = HpfSteps
    /\ LET err == Sub(Zero, hpt.process)
       IN  hpt' = [hpt EXCEPT !.pc = "done",
                              !.failed = Gt(MathAbs(err), Norm(1, 100000))]

(***************************************************************************)
(* PIDCtl: the loop goroutine, its channels and its callers                *)
(*                                                                         *)
(* rev "Loop" is the revision whose loop ranges over m (it ends when m is  *)
(* closed), rev "Start" the revision whose loop selects between m and the  *)
(* signal channel (Stop, Pause, Resume, EnableLocking, DisableLocking).    *)
(* A send on an unbuffered channel is one step taken jointly by the sender *)
(* and the receiver.                                                       *)
(***************************************************************************)
CtlRevs == {"Loop", "Start"}

\* the measurements sent on m
CtlMeas == {F(1), F(3)}

\* the seconds between two readings of time.Now()
CtlDeltas == {2}

\* the capacities of m and of o
CtlMCaps == {0, 2}

CtlOCaps == {0, 1}

\* the Output the controller holds before the loop is started
CtlOutputs == {F(5)}

CtlCmds == {"stop", "pause", "resume", "enable", "disable"}

\* ctl holds the PIDCtl fields (P .. signal, and mu, the embedded mutex:
\* "free", or the goroutine that locked it), the locals of the loop goroutine
\* (pc .. integral), the channels m and o, the calling goroutine cmd, the clock
\* now, and the history: the number nProd of measurements sent, the sequence
\* recvd of measurements received, for each send on o the number sentAt of
\* measurements received before it and the value outs sent, whether the loop
\* locked mu in this iteration (lockedIter), whether it unlocked a mutex it had
\* not locked (unmatched), and whether the runtime has aborted the program
\* (fatal: unlock of unlocked mutex); atPause is <<integral, prevErr>> as the
\* loop received the last pause command, atClose the numbers of measurements
\* received and buffered as m was closed
CtlNone ==
    [rev |-> "none", P |-> Zero, I |-> Zero, D |-> Zero, Setpt |-> Zero,
     Meas |-> Zero, Output |-> Zero, lastObs |-> 0, locking |-> FALSE,
     Running |-> FALSE, signal |-> "nil", mu |-> "free",
     pc |-> "idle", pVal |-> Zero, updateT |-> 0, started |-> FALSE,
     prevErr |-> Zero, integral |-> Zero,
     m |-> [buf |-> <<>>, cap |-> 0, closed |-> FALSE],
     o |-> [buf |-> <<>>, cap |-> 0],
     cmd |-> [pc |-> "idle", op |-> "none", ch |-> "nil", n |-> 0,
              done |-> <<>>],
     now |-> 0, nProd |-> 0, recvd |-> <<>>, sentAt |-> <<>>, outs |-> <<>>,
     lockedIter |-> FALSE, unmatched |-> FALSE, fatal |-> FALSE,
     atPause |-> <<>>, atClose |-> <<>>]

\* a seeding that also runs the control law
SeedControls(c) ==
    LET err == Sub(c.Setpt, c.pVal)
    IN  [c EXCEPT !.lastObs = c.updateT, !.Meas = c.pVal, !.started = TRUE,
                  !.integral = Add(@, err), !.prevErr = err,
                  !.Output = Mul(c.P, err)]

\* if !started { pid.lastObs = updateT; pid.Meas = pVal; started = true ... }
Seed(c) ==
    [c EXCEPT !.lastObs = c.updateT, !.Meas = c.pVal, !.started = TRUE]

\* dt .. prevErr = err : the control law on the measurement pVal taken at
\* updateT
Control(c) ==
    LET dt         == F(c.updateT - c.lastObs)
        err        == Sub(c.Setpt, c.pVal)
        integral   == Add(c.integral, Mul(err, dt))
        derivative == Div(Sub(err, c.prevErr), dt)
        output     == Add(Add(Mul(c.P, err), Mul(c.I, integral)),
                          Mul(c.D, derivative))
    IN  [c EXCEPT !.integral = integral, !.Output = output, !.Meas = c.pVal,
                  !.lastObs = c.updateT, !.prevErr = err]

\* a send on o can complete: the consumer is receiving, or the buffer has room
CanSendO(c) == c.o.cap = 0 \/ Len(c.o.buf) < c.o.cap

\* o <- pid.Output
SendO(c) ==
    [c EXCEPT !.o.buf = IF c.o.cap = 0 THEN @ ELSE Append(@, c.Output),
              !.sentAt = Append(@, Len(c.recvd)),
              !.outs = Append(@, c.Output)]

\* a receive that takes the measurement and skips the iteration
ReceiveSkips(c, v, delta) ==
    [c EXCEPT !.now = @ + delta, !.recvd = Append(@, v), !.pc = "recv"]

\* pVal := <-m ; updateT := time.Now() ; pid.Meas = pVal ; then the seeding of
\* the first iteration, or the test of pid.locking
Receive(c, v, delta) ==
    LET r == [c EXCEPT !.now = @ + delta, !.updateT = c.now + delta,
                       !.pVal = v, !.Meas = v, !.recvd = Append(@, v),
                       !.lockedIter = FALSE]
    IN  IF ~r.started THEN [Seed(r) EXCEPT !.pc = "seedSend"]
        ELSE IF r.locking THEN [r EXCEPT !.pc = "lock"]
        ELSE [Control(r) EXCEPT !.pc = "send"]

\* if pid.signal == nil { pid.signal = make(chan string) } ; pid.Running = true
LoopInit ==
    /\ ctl.pc = "init"
    /\ ~ctl.fatal
    /\ ctl' = [ctl EXCEPT !.signal = "chan", !.Running = TRUE, !.pc = "recv"]

\* case pVal := <-m  /  for pVal := range m
LoopReceive ==
    /\ ctl.pc = "recv"
    /\ ~ctl.fatal
    /\ \E delta \in CtlDeltas :
          IF ctl.m.cap = 0
          THEN /\ ~ctl.m.closed
               /\ ctl.nProd < MaxMeas
               /\ \E v \in CtlMeas :
                     ctl' = Receive([ctl EXCEPT !.nProd = @ + 1], v, delta)
          ELSE /\ ctl.m.buf # <<>>
               /\ ctl' = Receive([ctl EXCEPT !.m.buf = Tail(@)],
                                 Head(ctl.m.buf), delta)

\* range m ends: m is closed and drained
LoopRangeEnd ==
    /\ ctl.rev = "Loop"
    /\ ctl.pc = "recv"
    /\ ~ctl.fatal
    /\ ctl.m.closed
    /\ ctl.m.buf = <<>>
    /\ ctl' = [ctl EXCEPT !.pc = "done"]

\* pid.Lock() and the control law
LoopLock ==
    /\ ctl.pc = "lock"
    /\ ~ctl.fatal
    /\ ctl.mu = "free"
    /\ ctl' = [Control([ctl EXCEPT !.mu = "loop", !.lockedIter = TRUE])
                  EXCEPT !.pc = "send"]

\* o <- pid.Output
LoopSend ==
    /\ ctl.pc \in {"seedSend", "send"}
    /\ ~ctl.fatal
    /\ CanSendO(ctl)
    /\ ctl' = [SendO(ctl) EXCEPT
                  !.pc = IF ctl.pc = "seedSend" THEN "recv" ELSE "unlock"]

\* if pid.locking { pid.Unlock() }
LoopUnlock ==
    /\ ctl.pc = "unlock"
    /\ ~ctl.fatal
    /\ ctl' = IF ctl.locking
              THEN [ctl EXCEPT !.mu = "free", !.fatal = (ctl.mu = "free"),
                               !.unmatched = @ \/ ~ctl.lockedIter,
                               !.pc = "recv"]
              ELSE [ctl EXCEPT !.pc = "recv"]

\* case cmd := <-pid.signal, taken jointly with the caller's send
LoopSignal ==
    /\ ctl.rev = "Start"
    /\ ctl.pc = "recv"
    /\ ~ctl.fatal
    /\ ctl.cmd.pc = "send"
    /\ ctl.cmd.ch = ctl.signal
    /\ ctl' = [ctl EXCEPT
                  !.cmd.pc = "set",
                  !.pc = IF ctl.cmd.op = "pause" THEN "paused"
                         ELSE IF ctl.cmd.op = "stop" THEN "done" ELSE "recv",
                  !.Running = IF ctl.cmd.op = "stop" THEN FALSE ELSE @,
                  !.atPause = IF ctl.cmd.op = "pause"
                              THEN <<ctl.integral, ctl.prevErr>> ELSE @]

\* <-pid.signal // wait for the resume command
LoopRelease ==
    /\ ctl.pc = "paused"
    /\ ~ctl.fatal
    /\ ctl.cmd.pc = "send"
    /\ ctl.cmd.ch = ctl.signal
    /\ ctl' = [ctl EXCEPT !.cmd.pc = "set", !.pc = "recv"]

\* a call of Stop, Pause, Resume, EnableLocking or DisableLocking begins: the
\* first three evaluate pid.signal and block in the send, the last two block
\* in pid.Lock()
CmdCall(op) ==
    /\ ctl.rev = "Start"
    /\ ~ctl.fatal
    /\ ctl.cmd.pc = "idle"
    /\ ctl.cmd.n < MaxCmds
    /\ ctl' = [ctl EXCEPT !.cmd.op = op, !.cmd.n = @ + 1,
                          !.cmd.ch = ctl.signal,
                          !.cmd.pc = IF op \in {"enable", "disable"}
                                     THEN "lock" ELSE "send"]

\* pid.Running = false (Stop, Pause) ; pid.Running = true (Resume)
CmdSet ==
    /\ ctl.cmd.pc = "set"
    /\ ~ctl.fatal
    /\ ctl' = [ctl EXCEPT !.Running = (ctl.cmd.op = "resume"),
                          !.cmd.pc = "idle",
                          !.cmd.done = Append(@, ctl.cmd.op)]

\* pid.Lock() of EnableLocking and DisableLocking
CmdLock ==
    /\ ctl.cmd.pc = "lock"
    /\ ~ctl.fatal
    /\ ctl.mu = "free"
    /\ ctl' = [ctl EXCEPT !.mu = "cmd", !.cmd.pc = "flip"]

\* pid.locking = true / false
CmdFlip ==
    /\ ctl.cmd.pc = "flip"
    /\ ~ctl.fatal
    /\ ctl' = [ctl EXCEPT !.locking = (ctl.cmd.op = "enable"),
                          !.cmd.pc = "unlock"]

\* pid.Unlock() of EnableLocking and DisableLocking
CmdUnlock ==
    /\ ctl.cmd.pc = "unlock"
    /\ ~ctl.fatal
    /\ ctl' = [ctl EXCEPT !.mu = "free", !.fatal = (ctl.mu = "free"),
                          !.cmd.pc = "idle",
                          !.cmd.done = Append(@, ctl.cmd.op)]

\* m <- v on a buffered m
ProdSend ==
    /\ ctl.pc # "idle"
    /\ ~ctl.fatal
    /\ ctl.m.cap > 0
    /\ ~ctl.m.closed
    /\ ctl.nProd < MaxMeas
    /\ Len(ctl.m.buf) < ctl.m.cap
    /\ \E v \in CtlMeas :
          ctl' = [ctl EXCEPT !.m.buf = Append(@, v), !.nProd = @ + 1]

\* close(m)
ProdClose ==
    /\ ctl.rev = "Loop"
    /\ ~ctl.fatal
    /\ ~ctl.m.closed
    /\ ctl' = [ctl EXCEPT !.m.closed = TRUE,
                          !.atClose = <<Len(ctl.recvd), Len(ctl.m.buf)>>]

\* <-o by the consumer of a buffered o
Consume ==
    /\ ~ctl.fatal
    /\ ctl.o.buf # <<>>
    /\ ctl' = [ctl EXCEPT !.o.buf = Tail(@)]

(***************************************************************************)
(* PhaseLock: a loop of Start(), a loop body, Stop()                       *)
(*                                                                         *)
(* Times and durations are integers (nanoseconds); time.Sleep(d) returns   *)
(* after d or more has elapsed, and at once for d <= 0.                    *)
(***************************************************************************)
\* PhaseLock.Interval
PlIntervals == {-1, 0, 1, 2, 3}

\* the time the loop body takes, and the time between two calls
PlDelays == 0..4

\* the time time.Sleep oversleeps
PlOversleeps == {0, 1}

\* pl holds the PhaseLock (Interval, started), the clock now, the position pc
\* of the caller, the number laps of Start/Stop pairs begun, and of the last
\* Stop: the elapsed time dT it computed, whether it called time.Sleep (slept)
\* and with which duration d, the clock startAt at the matching Start and the
\* clock retAt at its return
PlNone ==
    [Interval |-> 0, started |-> 0, now |-> 0, pc |-> "idle", laps |-> 0,
     dT |-> 0, slept |-> FALSE, d |-> 0, startAt |-> 0, retAt |-> 0]

\* Start: pl.started = time.Now()
PhaseLockStart ==
    /\ pl.pc \in {"new", "returned"}
    /\ pl.laps < MaxLaps
    /\ \E w \in PlDelays :
          pl' = [pl EXCEPT !.now = @ + w, !.started = pl.now + w,
                           !.startAt = pl.now + w, !.laps = @ + 1,
                           !.pc = "body"]

\* a Stop that sleeps the whole Interval
StopSleepsInterval(p, now) ==
    LET dT == now - p.started
    IN  IF dT > p.Interval THEN [dT |-> dT, sleep |-> FALSE, d |-> 0]
        ELSE [dT |-> dT, sleep |-> TRUE, d |-> p.Interval]

\* Stop: dT := time.Now().Sub(pl.started) ; if dT > pl.Interval { return } ;
\* time.Sleep(pl.Interval - dT)
Stop(p, now) ==
    LET dT == now - p.started
    IN  IF dT > p.Interval THEN [dT |-> dT, sleep |-> FALSE, d |-> 0]
        ELSE [dT |-> dT, sleep |-> TRUE, d |-> p.Interval - dT]

\* the loop body runs for w, then Stop is called: it returns at once or
\* enters time.Sleep
PhaseLockStop ==
    /\ pl.pc = "body"
    /\ \E w \in PlDelays :
          LET r == Stop(pl, pl.now + w)
          IN  pl' = [pl EXCEPT !.now = @ + w, !.dT = r.dT, !.slept = r.sleep,
                               !.d = r.d,
                               !.retAt = IF r.sleep THEN @ ELSE pl.now + w,
                               !.pc = IF r.sleep THEN "sleeping" ELSE "returned"]

\* time.Sleep returns, and Stop with it
PhaseLockWake ==
    /\ pl.pc = "sleeping"
    /\ \E x \in PlOversleeps :
          LET t == pl.now + (IF pl.d > 0 THEN pl.d ELSE 0) + x
          IN  pl' = [pl EXCEPT !.now = t, !.retAt = t, !.pc = "returned"]

(***************************************************************************)
(* A Biquad constructed by NewBiquad and its caller                        *)
(***************************************************************************)
\* coefficient sets <<a0, a1, a2, b1, b2>>: a rounding of the low-pass of
\* TestBiquadFilterAsymptotic, and others (an all-pass delay, a pure
\* recursion, negative and zero coefficients)
DqCoefs ==
    {<<Norm(3, 10), Norm(3, 5), Norm(3, 10), F(0), Norm(1, 5)>>,
     <<F(1), F(2), F(3), Norm(1, 2), Norm(-1, 3)>>,
     <<F(0), F(0), F(1), F(0), F(0)>>,
     <<F(1), F(0), F(0), F(-1), F(1)>>,
     <<F(-2), F(1), Norm(1, 2), F(2), F(3)>>,
     <<Norm(1, 2), F(-1), F(0), Norm(-1, 2), F(0)>>}

DqInputs == {F(0), F(1), F(-2)}

\* dq holds the filter b, the coefficients c it was constructed from, and the
\* inputs xs and the return values ys of its Updates
DqNone == [b |-> [kind |-> "none"], c |-> <<>>, xs |-> <<>>, ys |-> <<>>]

\* y := b.Update(input)
DqUpdateCall(input) ==
    /\ Len(dq.xs) < MaxDqOps
    /\ LET r == BiquadUpdate(dq.b, input)
       IN  dq' = [dq EXCEPT !.b = r.st, !.xs = Append(@, input),
                            !.ys = Append(@, r.out)]

(***************************************************************************)
(* The buffers of a StateSpaceFilter                                       *)
(***************************************************************************)
\* the initial conditions passed for n states: nil, a slice of length n, and
\* slices that are too short and too long
SbInitConds(n) ==
    {<<>>, [i \in 1..n |-> F(2 * i - 3)], [i \in 1..(n + 1) |-> F(i)]}
        \cup (IF n >= 2 THEN {[i \in 1..(n - 1) |-> F(-i)]} ELSE {})

\* sb holds the filter f, the initCond ic it was constructed from, the number
\* n of calls and ups of Updates made on it, and the last call op
\* ("UpdatePanic", "ResetPanic": the call failed with an index out of range)
SbNone == [f |-> SsfNone, ic |-> <<>>, n |-> 0, ups |-> 0, op |-> "none"]

\* Update indexes out[i] for i < len(A) and A[i][j], c[j] for j < len(x)
SbUpdatePanics(s) ==
    \/ Len(s.mem[s.scratch]) < Len(s.a)
    \/ Len(s.a) >= 1 /\ Len(s.mem[s.x]) > Len(s.a[1])
    \/ Len(s.mem[s.x]) > Len(s.c)

\* Reset indexes scratch[i] for i < len(x)
SbResetPanics(s) == Len(s.mem[s.scratch]) < Len(s.mem[s.x])

\* s.Update(input)
SbUpdateCall(input) ==
    /\ sb.n < MaxSbOps
    /\ sb.op \notin {"UpdatePanic", "ResetPanic"}
    /\ IF SbUpdatePanics(sb.f)
       THEN sb' = [sb EXCEPT !.n = @ + 1, !.op = "UpdatePanic"]
       ELSE sb' = [sb EXCEPT !.n = @ + 1, !.op = "Update", !.ups = @ + 1,
                             !.f = StateSpaceUpdate(sb.f, input).st]

\* s.Reset()
SbResetCall ==
    /\ sb.n < MaxSbOps
    /\ sb.op \notin {"UpdatePanic", "ResetPanic"}
    /\ IF SbResetPanics(sb.f)
       THEN sb' = [sb EXCEPT !.n = @ + 1, !.op = "ResetPanic"]
       ELSE sb' = [sb EXCEPT !.n = @ + 1, !.op = "Reset",
                             !.f = StateSpaceReset(sb.f)]

(***************************************************************************)
(* Specifications, one per component; the other components stay idle       *)
(***************************************************************************)
CasIdle == stages = <<>> /\ casCall = CasCallNone

PidIdle ==
    /\ pid = NewPID(Zero, Zero, Zero, Zero, Zero, Zero)
    /\ pidCall = PidCallNone

LoopIdle == loop = LoopNone

FirIdle == fir = FirNone /\ firCall = FirCallNone

SsfIdle == ssf = SsfNone /\ ssfCall = SsfCallNone

ShareIdle == share = ShareNone

BqIdle == bq = BqNone

OrdIdle == ord = OrdNone

LpfIdle == lpf = LpfNone

HpfIdle == hpf = HpfNone

HptIdle == hpt = HptNone

CtlIdle == ctl = CtlNone

PlIdle == pl = PlNone

DqIdle == dq = DqNone

SbIdle == sb = SbNone

\* every component but c is idle
IdleBut(c) ==
    /\ IF c = "cas" THEN TRUE ELSE CasIdle
    /\ IF c = "pid" THEN TRUE ELSE PidIdle
    /\ IF c = "loop" THEN TRUE ELSE LoopIdle
    /\ IF c = "fir" THEN TRUE ELSE FirIdle
    /\ IF c = "ssf" THEN TRUE ELSE SsfIdle
    /\ IF c = "share" THEN TRUE ELSE ShareIdle
    /\ IF c = "bq" THEN TRUE ELSE BqIdle
    /\ IF c = "ord" THEN TRUE ELSE OrdIdle
    /\ IF c = "lpf" THEN TRUE ELSE LpfIdle
    /\ IF c = "hpf" THEN TRUE ELSE HpfIdle
    /\ IF c = "hpt" THEN TRUE ELSE HptIdle
    /\ IF c = "ctl" THEN TRUE ELSE CtlIdle
    /\ IF c = "pl" THEN TRUE ELSE PlIdle
    /\ IF c = "dq" THEN TRUE ELSE DqIdle
    /\ IF c = "sb" THEN TRUE ELSE SbIdle

\* Cascade over a heap of stages
InitCascade ==
    /\ prec = 0
    /\ stages \in [Ptrs -> StageChoices]
    /\ casCall = [CasCallNone EXCEPT !.manStages = stages, !.pre = stages,
                                     !.first = stages]
    /\ IdleBut("cas")

NextCascade ==
    /\ \E input \in CasInputs, chain \in Chains : CascadeCall(input, chain)
    /\ UNCHANGED <<prec, pidVars, loop, firVars, ssfVars, share, bq, ord, lpf, hpf, hpt, ctl, pl, dq, sb>>

SpecCascade == InitCascade /\ [][NextCascade]_vars

\* a PID and its caller
InitPID ==
    /\ prec = 0
    /\ \E g \in PidGains, dt \in PidDTs, m \in PidIErrMaxs :
          pid = NewPID(g[1], g[2], g[3], dt, m, Zero)
    /\ pidCall = PidCallNone
    /\ IdleBut("pid")

NextPID ==
    /\ \/ \E input \in PidInputs : PIDUpdateCall(input)
       \/ PIDIntegralResetCall
       \/ \E s \in PidSetpts : PIDSetSetpt(s)
    /\ UNCHANGED <<prec, casVars, loop, firVars, ssfVars, share, bq, ord, lpf, hpf, hpt, ctl, pl, dq, sb>>

SpecPID == InitPID /\ [][NextPID]_vars

\* TestPIDConverges
InitLoop ==
    /\ prec = 0
    /\ \E dt \in LoopDTs, x \in LoopSeeds, t \in LoopSetpts :
          loop = [LoopNone EXCEPT !.pc = "seed", !.seed = x, !.target = t,
                      !.ctl = NewPID(F(1), Zero, Zero, dt, Zero, Zero)]
    /\ IdleBut("loop")

NextLoop ==
    /\ \/ LoopSeed
       \/ LoopSetpt
       \/ LoopIterate
    /\ UNCHANGED <<prec, casVars, pidVars, firVars, ssfVars, share, bq, ord, lpf, hpf, hpt, ctl, pl, dq, sb>>

SpecLoop == InitLoop /\ [][NextLoop]_vars

\* a FIRFilter and its caller
InitFIR ==
    /\ prec = 0
    /\ \E taps \in FirTaps :
          /\ fir = NewFIRFilter(taps)
          /\ firCall = [FirCallNone EXCEPT !.taps = taps, !.pre = fir]
    /\ IdleBut("fir")

NextFIR ==
    /\ \/ \E input \in FirInputs : FIRUpdateCall(input)
       \/ FIRResetCall
    /\ UNCHANGED <<prec, casVars, pidVars, loop, ssfVars, share, bq, ord, lpf, hpf, hpt, ctl, pl, dq, sb>>

SpecFIR == InitFIR /\ [][NextFIR]_vars

\* a StateSpaceFilter and its caller
InitSS ==
    /\ prec = 0
    /\ \E sys \in SsSystems :
          \E ic \in SsInitConds(Len(sys.B)) :
             /\ ssf = NewStateSpaceFilter(sys.A, sys.B, sys.C, sys.D, ic)
             /\ ssfCall = [SsfCallNone EXCEPT !.x0 = ssf.mem[ssf.x], !.pre = ssf]
    /\ IdleBut("ssf")

NextSS ==
    /\ \/ \E input \in SsInputs : StateSpaceUpdateCall(input)
       \/ StateSpaceResetCall
    /\ UNCHANGED <<prec, casVars, pidVars, loop, firVars, share, bq, ord, lpf, hpf, hpt, ctl, pl, dq, sb>>

SpecSS == InitSS /\ [][NextSS]_vars

\* two StateSpaceFilters constructed from one initial-condition slice
InitShare ==
    /\ prec = 0
    /\ \E sys \in SsSystems :
          \E ic \in SsInitConds(Len(sys.B)) \ {<<>>} :
             share = ShareConstruct(sys, ic)
    /\ IdleBut("share")

NextShare ==
    /\ \/ \E k \in {1, 2}, input \in SsInputs : ShareUpdateCall(k, input)
       \/ \E k \in {1, 2} : ShareResetCall(k)
    /\ UNCHANGED <<prec, casVars, pidVars, loop, firVars, ssfVars, bq, ord, lpf, hpf, hpt, ctl, pl, dq, sb>>

SpecShare == InitShare /\ [][NextShare]_vars

\* two Biquads synthesised with different gains
InitBiquad ==
    /\ prec = 0
    /\ \E kind \in BqKinds, r \in BqRates, Q \in BqQs, g \in BqGains :
          bq = BqConstruct(kind, r[1], r[2], Q, g[1], g[2])
    /\ IdleBut("bq")

NextBiquad ==
    /\ \E input \in BqInputs : BqUpdateCall(input)
    /\ UNCHANGED <<prec, casVars, pidVars, loop, firVars, ssfVars, share, ord, lpf, hpf, hpt, ctl, pl, dq, sb>>

SpecBiquad == InitBiquad /\ [][NextBiquad]_vars

\* two Setpoints cascaded in both orders, in rounded and in exact arithmetic
InitOrder ==
    /\ prec \in {0, PrecBits}
    /\ \E a \in OrdTargets, b \in OrdTargets :
          ord = [OrdNone EXCEPT !.s = <<NewSetpoint(Fl(a)), NewSetpoint(Fl(b))>>]
    /\ IdleBut("ord")

NextOrder ==
    /\ \E raw \in OrdInputs : OrdCall(raw)
    /\ UNCHANGED <<prec, casVars, pidVars, loop, firVars, ssfVars, share, bq, lpf, hpf, hpt, ctl, pl, dq, sb>>

SpecOrder == InitOrder /\ [][NextOrder]_vars

\* an LPF and its caller, in exact and in rounded arithmetic
InitLPF ==
    /\ prec \in {0, PrecBits}
    /\ \E q \in LpfParams :
          lpf = [LpfNone EXCEPT !.f = NewLPF(Fl(q[1]), Fl(q[2])), !.q = q]
    /\ IdleBut("lpf")

NextLPF ==
    /\ \E input \in LpfInputs : LPFUpdateCall(input)
    /\ UNCHANGED <<prec, casVars, pidVars, loop, firVars, ssfVars, share, bq, ord, hpf, hpt, ctl, pl, dq, sb>>

SpecLPF == InitLPF /\ [][NextLPF]_vars

\* two HPFs of equal parameters, in exact and in rounded arithmetic
InitHPF ==
    /\ prec \in {0, PrecBits}
    /\ \E q \in HpfParams :
          hpf = [HpfNone EXCEPT !.h = <<NewHPF(Fl(q[1]), Fl(q[2])),
                                        NewHPF(Fl(q[1]), Fl(q[2]))>>,
                                !.pre = <<NewHPF(Fl(q[1]), Fl(q[2])),
                                          NewHPF(Fl(q[1]), Fl(q[2]))>>]
    /\ IdleBut("hpf")

NextHPF ==
    /\ \E in1 \in HpfInputs, in2 \in HpfInputs : HPFUpdateCall(in1, in2)
    /\ UNCHANGED <<prec, casVars, pidVars, loop, firVars, ssfVars, share, bq, ord, lpf, hpt, ctl, pl, dq, sb>>

SpecHPF == InitHPF /\ [][NextHPF]_vars

\* TestHighPassRejectsOscillation, in exact and in rounded arithmetic
InitHpt ==
    /\ prec \in {0, PrecBits}
    /\ \E q \in HptParams, t \in HptTargets :
          hpt = [HptNone EXCEPT !.pc = "seed", !.q = q, !.target = Fl(t),
                                !.h = NewHPF(Fl(q[1]), Fl(q[2]))]
    /\ IdleBut("hpt")

NextHpt ==
    /\ \/ HptSeed
       \/ HptIterate
       \/ HptCheck
    /\ UNCHANGED <<prec, casVars, pidVars, loop, firVars, ssfVars, share, bq, ord, lpf, hpf, ctl, pl, dq, sb>>

SpecHpt == InitHpt /\ [][NextHpt]_vars

\* a PIDCtl whose loop has been started with go Loop(m, o) or go Start(m, o)
InitCtl ==
    /\ prec = 0
    /\ \E rev \in CtlRevs, mcap \in CtlMCaps, ocap \in CtlOCaps,
          out \in CtlOutputs, lk \in BOOLEAN :
          ctl = [CtlNone EXCEPT !.rev = rev, !.P = F(1), !.I = F(1),
                                !.D = F(1), !.Setpt = F(2), !.Output = out,
                                !.locking = lk, !.m.cap = mcap, !.o.cap = ocap,
                                !.pc = IF rev = "Loop" THEN "recv" ELSE "init"]
    /\ IdleBut("ctl")

CtlLoopStep ==
    \/ LoopInit
    \/ LoopReceive
    \/ LoopRangeEnd
    \/ LoopLock
    \/ LoopSend
    \/ LoopUnlock
    \/ LoopSignal
    \/ LoopRelease

CtlCallerStep ==
    \/ \E op \in CtlCmds : CmdCall(op)
    \/ CmdSet
    \/ CmdLock
    \/ CmdFlip
    \/ CmdUnlock

NextCtl ==
    /\ \/ CtlLoopStep
       \/ CtlCallerStep
       \/ ProdSend
       \/ ProdClose
       \/ Consume
    /\ UNCHANGED <<prec, casVars, pidVars, loop, firVars, ssfVars, share, bq, ord, lpf, hpf, hpt, pl, dq, sb>>

SpecCtl == InitCtl /\ [][NextCtl]_vars

\* go Loop(m, o) alone, with a consumer that keeps receiving from o and a
\* scheduler that keeps running the loop goroutine
InitCtlLoop ==
    /\ InitCtl
    /\ ctl.rev = "Loop"

CtlRangeStep ==
    \/ LoopReceive
    \/ LoopRangeEnd
    \/ LoopLock
    \/ LoopSend
    \/ LoopUnlock

NextCtlLoop ==
    /\ \/ CtlRangeStep
       \/ ProdSend
       \/ ProdClose
       \/ Consume
    /\ UNCHANGED <<prec, casVars, pidVars, loop, firVars, ssfVars, share, bq, ord, lpf, hpf, hpt, pl, dq, sb>>

\* the loop goroutine runs
CtlRangeRuns ==
    /\ CtlRangeStep
    /\ UNCHANGED <<prec, casVars, pidVars, loop, firVars, ssfVars, share, bq, ord, lpf, hpf, hpt, pl, dq, sb>>

\* the consumer of o runs
CtlConsumerRuns ==
    /\ Consume
    /\ UNCHANGED <<prec, casVars, pidVars, loop, firVars, ssfVars, share, bq, ord, lpf, hpf, hpt, pl, dq, sb>>

SpecCtlLoop ==
    /\ InitCtlLoop
    /\ [][NextCtlLoop]_vars
    /\ WF_vars(CtlRangeRuns)
    /\ WF_vars(CtlConsumerRuns)

\* go Start(m, o) and the callers of Stop, Pause, Resume, EnableLocking and
\* DisableLocking, with a consumer that keeps receiving from o and a scheduler
\* that keeps running the loop goroutine and the calling goroutine
InitCtlStart ==
    /\ InitCtl
    /\ ctl.rev = "Start"

CtlSelectStep ==
    \/ LoopInit
    \/ LoopReceive
    \/ LoopLock
    \/ LoopSend
    \/ LoopUnlock
    \/ LoopSignal
    \/ LoopRelease

NextCtlStart ==
    /\ \/ CtlSelectStep
       \/ CtlCallerStep
       \/ ProdSend
       \/ Consume
    /\ UNCHANGED <<prec, casVars, pidVars, loop, firVars, ssfVars, share, bq, ord, lpf, hpf, hpt, pl, dq, sb>>

\* the loop goroutine runs
CtlSelectRuns ==
    /\ CtlSelectStep
    /\ UNCHANGED <<prec, casVars, pidVars, loop, firVars, ssfVars, share, bq, ord, lpf, hpf, hpt, pl, dq, sb>>

\* a call that has begun and is not blocked runs
CtlCallerRuns ==
    /\ \/ CmdSet
       \/ CmdLock
       \/ CmdFlip
       \/ CmdUnlock
    /\ UNCHANGED <<prec, casVars, pidVars, loop, firVars, ssfVars, share, bq, ord, lpf, hpf, hpt, pl, dq, sb>>

SpecCtlStart ==
    /\ InitCtlStart
    /\ [][NextCtlStart]_vars
    /\ WF_vars(CtlSelectRuns)
    /\ WF_vars(CtlCallerRuns)
    /\ WF_vars(CtlConsumerRuns)

\* a PhaseLock and the loop that calls it
InitPl ==
    /\ prec = 0
    /\ \E i \in PlIntervals : pl = [PlNone EXCEPT !.Interval = i, !.pc = "new"]
    /\ IdleBut("pl")

NextPl ==
    /\ \/ PhaseLockStart
       \/ PhaseLockStop
       \/ PhaseLockWake
    /\ UNCHANGED <<prec, casVars, pidVars, loop, firVars, ssfVars, share, bq, ord, lpf, hpf, hpt, ctl, dq, sb>>

SpecPl == InitPl /\ [][NextPl]_vars

\* a Biquad with zero delay states and its caller
InitDq ==
    /\ prec = 0
    /\ \E c \in DqCoefs :
          dq = [DqNone EXCEPT !.b = NewBiquad(c[1], c[2], c[3], c[4], c[5]),
                              !.c = c]
    /\ IdleBut("dq")

NextDq ==
    /\ \E input \in DqInputs : DqUpdateCall(input)
    /\ UNCHANGED <<prec, casVars, pidVars, loop, firVars, ssfVars, share, bq, ord, lpf, hpf, hpt, ctl, pl, sb>>

SpecDq == InitDq /\ [][NextDq]_vars

\* a StateSpaceFilter constructed from an initCond of any length
InitSb ==
    /\ prec = 0
    /\ \E sys \in SsSystems :
          \E ic \in SbInitConds(Len(sys.B)) :
             sb = [SbNone EXCEPT
                      !.f = NewStateSpaceFilter(sys.A, sys.B, sys.C, sys.D, ic),
                      !.ic = ic]
    /\ IdleBut("sb")

NextSb ==
    /\ \/ \E input \in SsInputs : SbUpdateCall(input)
       \/ SbResetCall
    /\ UNCHANGED <<prec, casVars, pidVars, loop, firVars, ssfVars, share, bq, ord, lpf, hpf, hpt, ctl, pl, dq>>

SpecSb == InitSb /\ [][NextSb]_vars

(***************************************************************************)
(* Reference computations                                                  *)
(***************************************************************************)
RECURSIVE SumSeq(_)
SumSeq(s) == IF s = <<>> THEN Zero ELSE Add(SumSeq(SubSeq(s, 1, Len(s) - 1)), s[Len(s)])

\* y[n] = sum over k in 0..N-1 of taps[k] * u[n-k], for the last sample of u
DirectConv(taps, u) ==
    SumSeq([k \in 1..Len(taps) |->
               Mul(taps[k], IF Len(u) - (k - 1) >= 1 THEN u[Len(u) - (k - 1)]
                            ELSE Zero)])

\* x[k] of the recurrence x[k+1] = A x[k] + B u[k], x[0] = x0  (u[k] is u[k+1] here)
RECURSIVE RefState(_, _, _, _, _)
RefState(A, B, x0, u, k) ==
    IF k = 0 THEN x0
    ELSE LET xp == RefState(A, B, x0, u, k - 1)
         IN  [i \in 1..Len(B) |->
                 Add(SumSeq([j \in 1..Len(B) |-> Mul(A[i][j], xp[j])]),
                     Mul(B[i], u[k]))]

\* y[k] = C x[k] + D u[k]
RefOutput(A, B, C, D, x0, u, k) ==
    LET x == RefState(A, B, x0, u, k)
    IN  Add(SumSeq([i \in 1..Len(C) |-> Mul(C[i], x[i])]), Mul(D, u[k + 1]))

(***************************************************************************)
(* Properties                                                              *)
(***************************************************************************)
\* C1: Cascade(x, s1, ..., sn) returns the value of the manual chain
\* sn.Update(...s1.Update(x)...) and leaves every stage in the state the
\* manual chain leaves it in; it calls Update once per chain position, in
\* order, each stage receiving the output of the one before it.
CascadeEqualsManualChain ==
    casCall.n > 0 =>
        /\ casCall.out = casCall.manOut
        /\ stages = casCall.manStages
        /\ Len(casCall.log) = Len(casCall.chain)
        /\ \A i \in 1..Len(casCall.chain) :
              casCall.log[i] =
                  <<casCall.chain[i],
                    ManualChain(casCall.input, casCall.chain, i - 1, casCall.pre).out>>

\* a Cascade over a stateful stage followed by a different, stateless one
CascadeStatefulPairReached ==
    /\ casCall.n > 0
    /\ Len(casCall.chain) = 2
    /\ casCall.chain[1] # casCall.chain[2]
    /\ stages[casCall.chain[1]].kind = "Biquad"
    /\ stages[casCall.chain[2]].kind = "Setpoint"
    /\ stages # casCall.pre
    /\ casCall.out # casCall.input

\* C2: every FIRFilter.Update returns the direct backward convolution of the
\* taps with the inputs so far, wherever j stands; taps [1,0,0,0] return the
\* input itself and taps [0,1,0,0] the input before it.
FIRIsDirectConvolution ==
    firCall.op = "Update" =>
        /\ firCall.out = DirectConv(firCall.taps, firCall.u)
        /\ firCall.taps = <<F(1), F(0), F(0), F(0)>> =>
              firCall.out = firCall.u[Len(firCall.u)]
        /\ firCall.taps = <<F(0), F(1), F(0), F(0)>> /\ Len(firCall.u) >= 2 =>
              firCall.out = firCall.u[Len(firCall.u) - 1]

\* an Update on taps of distinct weights after the write index has wrapped
FIRWrappedReached ==
    /\ firCall.op = "Update"
    /\ firCall.taps = <<F(1), F(2), F(3), F(5)>>
    /\ Len(firCall.u) > Len(firCall.taps)
    /\ fir.j # 0
    /\ firCall.u[Len(firCall.u)] # firCall.u[Len(firCall.u) - 1]

\* C3 as stated: the first Update(x) returns x, records x as the last input
\* and last output, and leaves prevErr and integralErr alone.
FirstUpdateSeeds ==
    (pidCall.op = "Update" /\ pidCall.updates = 1) =>
        /\ pidCall.ret = pidCall.arg
        /\ Input(pid) = pidCall.arg
        /\ Output(pid) = pidCall.arg
        /\ pid.prevErr = pidCall.pre.prevErr
        /\ IErr(pid) = IErr(pidCall.pre)

\* C3 amended: the PID has no uninitialized state; the first Update(x)
\* applies the control law with 0 as the previous error and integral: for
\* err = Setpt - x it returns P*err + I*integralErr + D*err/DT, records x as
\* the last input and the returned value as the last output, and stores err
\* in prevErr.
FirstUpdateAppliesControl ==
    (pidCall.op = "Update" /\ pidCall.updates = 1) =>
        LET p   == pidCall.pre
            err == Sub(p.Setpt, pidCall.arg)
        IN  /\ p.prevErr = Zero /\ IErr(p) = Zero
            /\ IErr(pid) \in {Mul(err, p.DT), p.IErrMax}
            /\ pidCall.ret = Add(Add(Mul(p.P, err), Mul(p.I, IErr(pid))),
                                 Mul(p.D, Div(err, p.DT)))
            /\ Input(pid) = pidCall.arg
            /\ Output(pid) = pidCall.ret
            /\ pid.prevErr = err

\* a first Update that returned something other than its input
FirstUpdateControlReached ==
    /\ pidCall.op = "Update"
    /\ pidCall.updates = 1
    /\ IsFinite(pidCall.ret)
    /\ pidCall.ret # pidCall.arg
    /\ pid.prevErr # Zero
    /\ IErr(pid) # Zero

\* C4: an Update with err = Setpt - input adds err*DT to integralErr (before
\* the clamp), returns P*err + I*integralErr + D*(err - prevErr)/DT with
\* prevErr the error of the Update before it, stores err in prevErr, and
\* Input() and Output() give this call's input and result until the next
\* Update.
UpdateAppliesControlLaw ==
    /\ pidCall.op = "Update" =>
          LET p   == pidCall.pre
              err == Sub(p.Setpt, pidCall.arg)
          IN  /\ IErr(pid) \in {Add(IErr(p), Mul(err, p.DT)), p.IErrMax}
              /\ pidCall.ret =
                    Add(Add(Mul(p.P, err), Mul(p.I, IErr(pid))),
                        Mul(p.D, Div(Sub(err, pidCall.lastErr), p.DT)))
              /\ pid.prevErr = err
              /\ Input(pid) = pidCall.arg
              /\ Output(pid) = pidCall.ret
    /\ pidCall.op \in {"IntegralReset", "Setpt"} =>
          /\ Input(pid) = Input(pidCall.pre)
          /\ Output(pid) = Output(pidCall.pre)

\* a later Update with all three terms active and a changed error
UpdateAllTermsReached ==
    /\ pidCall.op = "Update"
    /\ pidCall.updates >= 2
    /\ pid.I # Zero /\ pid.D # Zero /\ pid.DT # Zero
    /\ pidCall.lastErr # Zero
    /\ pid.prevErr # pidCall.lastErr
    /\ IErr(pid) # Zero
    /\ IsFinite(pidCall.ret)

\* C5: with IErrMax != 0, IErr() <= IErrMax after every Update.
AntiWindup ==
    (pidCall.op = "Update" /\ Neq(pid.IErrMax, Zero)) =>
        Le(IErr(pid), pid.IErrMax)

\* an Update whose accumulated error exceeded IErrMax, after a reset and a
\* setpoint change
AntiWindupClampReached ==
    /\ pidCall.op = "Update"
    /\ Neq(pid.IErrMax, Zero)
    /\ Gt(Add(IErr(pidCall.pre),
              Mul(Sub(pidCall.pre.Setpt, pidCall.arg), pid.DT)), pid.IErrMax)
    /\ pidCall.updates >= 2

\* C6: the clamp replaces the accumulated value previous + err*DT exactly
\* when IErrMax != 0 and that value exceeds IErrMax; otherwise integralErr is
\* the unclamped sum, however far below -IErrMax.
ClampHighSideOnly ==
    pidCall.op = "Update" =>
        LET p   == pidCall.pre
            sum == Add(IErr(p), Mul(Sub(p.Setpt, pidCall.arg), p.DT))
        IN  IErr(pid) = IF Neq(p.IErrMax, Zero) /\ Gt(sum, p.IErrMax)
                        THEN p.IErrMax ELSE sum

\* an enabled clamp and an integral error below -IErrMax
BelowNegativeLimitReached ==
    /\ pidCall.op = "Update"
    /\ Gt(pid.IErrMax, Zero)
    /\ Lt(IErr(pid), Neg(pid.IErrMax))

\* C7: IntegralReset zeroes integralErr and changes no other field, so the
\* proportional and derivative terms of the next Update are those it would
\* have had without the reset.
IntegralResetFrame ==
    pidCall.op = "IntegralReset" =>
        /\ IErr(pid) = Zero
        /\ pid = [pidCall.pre EXCEPT !.integralErr = Zero]
        /\ \A x \in PidInputs :
              LET a == PIDUpdate(pid, x)
                  b == PIDUpdate(pidCall.pre, x)
              IN  Sub(a.out, Mul(pid.I, IErr(a.st))) =
                  Sub(b.out, Mul(pid.I, IErr(b.st)))

\* a reset of a PID holding a non-zero integral and previous error
IntegralResetReached ==
    /\ pidCall.op = "IntegralReset"
    /\ IErr(pidCall.pre) # Zero
    /\ pidCall.pre.prevErr # Zero
    /\ pid.D # Zero /\ pid.DT # Zero

\* C8: after the iterations of the closed loop the command is 0 and state
\* is within 1e-5 of Setpt.
LoopConverges ==
    loop.pc = "done" =>
        /\ Eq(loop.cmd, Zero)
        /\ Le(FAbs(Sub(loop.state, loop.ctl.Setpt)), Tolerance)

\* C9: with I == 0, D == 0 and DT == 0 an Update returns the finite value
\* P*(Setpt - input).
ZeroDTProportionalDefined ==
    (pidCall.op = "Update" /\ pid.I = Zero /\ pid.D = Zero /\ pid.DT = Zero) =>
        /\ IsFinite(pidCall.ret)
        /\ pidCall.ret = Mul(pid.P, Sub(pidCall.pre.Setpt, pidCall.arg))

\* C10: the k-th StateSpaceFilter.Update returns y[k] = C x[k] + D u[k] of
\* the recurrence x[k+1] = A x[k] + B u[k] from the initial condition, and
\* leaves x[k+1] as the state.
StateSpaceIsRecurrence ==
    ssfCall.op = "Update" =>
        LET k == Len(ssfCall.u) - 1
        IN  /\ ssfCall.out =
                  RefOutput(ssf.a, ssf.b, ssf.c, ssf.d, ssfCall.x0, ssfCall.u, k)
            /\ ssf.mem[ssf.x] = RefState(ssf.a, ssf.b, ssfCall.x0, ssfCall.u, k + 1)

\* a third or later Update of a two-state filter built with a non-zero
\* initial condition
StateSpaceThirdUpdateReached ==
    /\ ssfCall.op = "Update"
    /\ Len(ssfCall.u) >= 3
    /\ Len(ssf.b) = 2
    /\ ssfCall.x0 # <<Zero, Zero>>
    /\ ssfCall.out # Zero
    /\ ssf.mem[ssf.x] # ssf.mem[ssf.scratch]

(***************************************************************************)
(* StateSpaceFilter.Reset and FIRFilter.Reset                              *)
(***************************************************************************)
AllZero(v) == \A i \in 1..Len(v) : v[i] = Zero

\* C11: StateSpaceFilter.Reset zeros the state buffer and the scratch buffer
\* in place (the two buffers stay where they were) and leaves A, B, C, D
\* unchanged; from a Reset on, whatever the number of Updates before it, every
\* Update returns what a filter constructed afresh with the same A, B, C, D
\* and a nil initial condition returns for the same inputs.
StateSpaceResetIsFresh ==
    /\ ssfCall.op = "Reset" =>
          /\ AllZero(ssf.mem[ssf.x])
          /\ AllZero(ssf.mem[ssf.scratch])
          /\ Len(ssf.mem[ssf.x]) = Len(ssfCall.pre.mem[ssfCall.pre.x])
          /\ [ssf EXCEPT !.mem = ssfCall.pre.mem] = ssfCall.pre
    /\ (ssfCall.op = "Update" /\ ssfCall.twin # SsfNone) =>
          ssfCall.out = ssfCall.twinOut

\* a filter was Reset after an odd number of Updates on a non-zero state, so
\* that its buffers are swapped with respect to the fresh filter's, and has
\* since returned a non-zero value from its second Update
StateSpaceResetSwappedReached ==
    /\ ssfCall.op = "Update"
    /\ ssfCall.twin # SsfNone
    /\ ssf.x # ssfCall.twin.x
    /\ Len(ssfCall.u) = 2
    /\ ssfCall.out # Zero

\* C12: FIRFilter.Reset zeros the sample history and leaves the taps and the
\* write index j untouched; from a Reset on, wherever j stood, every Update
\* returns what a filter constructed afresh from the same taps returns for
\* the same inputs.
FIRResetIsFresh ==
    /\ firCall.op = "Reset" =>
          /\ AllZero(fir.x)
          /\ Len(fir.x) = Len(firCall.pre.x)
          /\ fir.h = firCall.pre.h
          /\ fir.j = firCall.pre.j
    /\ (firCall.op = "Update" /\ firCall.twin # FirNone) =>
          firCall.out = firCall.twinOut

\* a filter was Reset with a non-zero history and j off 0, and has since
\* returned a non-zero value while its j differs from the fresh filter's
FIRResetOffsetReached ==
    /\ firCall.op = "Update"
    /\ firCall.twin # FirNone
    /\ fir.j # firCall.twin.j
    /\ Len(firCall.u) >= 2
    /\ firCall.out # Zero

\* C13: no Update of a filter returned by NewFIRFilter fails at run time.
FIRUpdateNeverFails == firCall.op # "UpdatePanic"

\* C14: two filters constructed from the same argument slices share no
\* state: whatever is called on one, the caller's initial-condition slice
\* keeps the values it was passed with, and every Update returns what it
\* returns on a filter that does not share its slices.
StagesShareNoState ==
    /\ share.mem # <<>> => share.mem[1] = share.ic0
    /\ share.out = share.isoOut

(***************************************************************************)
(* Biquad synthesis                                                        *)
(***************************************************************************)
Coefs(b) == <<b.a0, b.a1, b.a2, b.b1, b.b2>>

\* C15: the low-pass, high-pass, band-pass and notch synthesis ignore the
\* gain: two filters synthesised from equal Fs, f, Q and any two gains have
\* the same coefficients and return the same values for the same inputs.
GainIgnored ==
    bq.kind \in {"Lowpass", "Highpass", "Bandpass", "Notch"} =>
        /\ Coefs(bq.b[1]) = Coefs(bq.b[2])
        /\ bq.out[1] = bq.out[2]
        /\ bq.b[1] = bq.b[2]

\* a low-pass pair with a boost and a cut gain has filtered two samples
GainIgnoredReached ==
    /\ bq.kind = "Lowpass"
    /\ bq.g = <<F(20), F(-6)>>
    /\ bq.n = 2
    /\ bq.out[1] # Zero
    /\ bq.b[1].z1 # Zero

\* C16: for the peak, low-shelf and high-shelf synthesis the filter of gain
\* -g is the inverse of the filter of gain +g: a0(-g)*a0(+g) = 1,
\* a1(-g) = b1(+g)/a0(+g), a2(-g) = b2(+g)/a0(+g), b1(-g) = a1(+g)/a0(+g),
\* b2(-g) = a2(+g)/a0(+g); g = 0 takes the boost branch.
BoostCutSymmetry ==
    (/\ bq.kind \in {"Peak", "LowShelf", "HighShelf"}
     /\ Le(Zero, bq.g[1])
     /\ bq.g[2] = Neg(bq.g[1])) =>
        LET p == bq.b[1]
            m == bq.b[2]
        IN  /\ Mul(m.a0, p.a0) = F(1)
            /\ m.a1 = Div(p.b1, p.a0)
            /\ m.a2 = Div(p.b2, p.a0)
            /\ m.b1 = Div(p.a1, p.a0)
            /\ m.b2 = Div(p.a2, p.a0)
            /\ (bq.g[1] = Zero => p.a0 = F(1) /\ Coefs(m) = Coefs(p))

\* a peak filter of +6 dB and one of -6 dB, with distinct coefficients
BoostCutPairReached ==
    /\ bq.kind = "Peak"
    /\ bq.g = <<F(6), F(-6)>>
    /\ bq.b[1].a0 # bq.b[2].a0
    /\ bq.b[1].a0 # F(1)

(***************************************************************************)
(* Setpoint                                                                *)
(***************************************************************************)
\* C17: Setpoint.Update(meas) returns meas - target and never changes the
\* target: after any calls every Setpoint is as it was constructed, a
\* call on a Setpoint alone returns its input less that target, and
\* Setpoint(0).Update(2) is 2.
SetpointStateless ==
    /\ \A p \in DOMAIN stages :
          casCall.first[p].kind = "Setpoint" => stages[p] = casCall.first[p]
    /\ \A p \in DOMAIN stages :
          (casCall.n > 0 /\ casCall.chain = <<p>>
             /\ casCall.first[p].kind = "Setpoint") =>
              casCall.out = Sub(casCall.input, casCall.first[p].target)
    /\ SetpointUpdate(NewSetpoint(Zero), F(2)) =
           [out |-> F(2), st |-> NewSetpoint(Zero)]

\* a Setpoint was updated alone in a second call, after a first call that
\* went through it too
SetpointTwiceReached ==
    /\ casCall.n = 2
    /\ Len(casCall.chain) = 1
    /\ stages[casCall.chain[1]].kind = "Setpoint"
    /\ casCall.out # casCall.input
    /\ casCall.pre = casCall.first

\* the distance |a - b| of two finite values as a real number
Dist(a, b) ==
    LET d == AddValues(a, Neg(b)) IN IF d[1] < 0 THEN Neg(d) ELSE d

\* C18 as stated: for any two Setpoints and any input, Cascade(x, s1, s2)
\* and Cascade(x, s2, s1) are the same value.
OrderInsensitive == ord.n > 0 => ord.out12 = ord.out21

\* C18: Cascade(x, s1, s2) is (x - a) - b and Cascade(x, s2, s1) is
\* (x - b) - a for the targets a, b, each subtraction rounded, whatever was
\* called before; the two are equal in exact arithmetic, and in rounded
\* arithmetic they differ by at most 5 * 2^-prec * (|x| + |a| + |b|).
OrderAgreesToRounding ==
    ord.n > 0 =>
        LET x == ord.input
            a == ord.s[1].target
            b == ord.s[2].target
            S == AddValues(AddValues(MathAbs(x), MathAbs(a)), MathAbs(b))
        IN  /\ ord.out12 = Sub(Sub(x, a), b)
            /\ ord.out21 = Sub(Sub(x, b), a)
            /\ prec = 0 => ord.out12 = ord.out21
            /\ prec > 0 =>
                  Le(Dist(ord.out12, ord.out21),
                     MulValues(Norm(5, Pow2(prec)), S))

\* in rounded arithmetic the two orders returned different values
OrdersDifferReached ==
    /\ ord.n > 0
    /\ prec > 0
    /\ ord.out12 # ord.out21

(***************************************************************************)
(* LPF and HPF                                                             *)
(***************************************************************************)
\* the error bound of TestLowPassFilterAsymptotic
AsymptoteTolerance == Norm(1, 100000)

\* the inputs are a seed 0 followed by n or more unit steps
UnitSteps(us, n) ==
    /\ Len(us) >= n + 1
    /\ us[1] = Zero
    /\ \A i \in 2..Len(us) : us[i] = F(1)

\* C19: an LPF starts with state 0; each Update moves the state by
\* alpha * (input - prev), alpha = DT / (rc + DT), which for DT > 0 and
\* rc > 0 leaves the output on the same side of the input, no farther from
\* it, and in exact arithmetic at (1 - alpha) times the distance; with
\* fc = 1 MHz and DT = 1e-3 the output is within 1e-5 of a unit step from
\* the second update of the step on.
LPFStepResponse ==
    /\ (lpf.n = 0 /\ lpf.q # <<>>) => lpf.f.prev = Zero
    /\ lpf.n > 0 =>
          LET u     == lpf.us[Len(lpf.us)]
              alpha == Div(lpf.f.DT, Add(lpf.f.rc, lpf.f.DT))
              e0    == AddValues(u, Neg(lpf.pre.prev))
              e1    == AddValues(u, Neg(lpf.out))
          IN  /\ lpf.out = lpf.f.prev
              /\ lpf.out = Add(lpf.pre.prev, Mul(alpha, Sub(u, lpf.pre.prev)))
              /\ Sign(e1[1]) \in {0, Sign(e0[1])}
              /\ AddValues(MathAbs(e0), Neg(MathAbs(e1)))[1] >= 0
              /\ prec = 0 =>
                    /\ e1 = MulValues(AddValues(F(1), Neg(alpha)), e0)
                    /\ Lt(Zero, alpha) /\ Lt(alpha, F(1))
    /\ (lpf.q = LpfTest /\ UnitSteps(lpf.us, 2)) =>
          Le(MathAbs(AddValues(F(1), Neg(lpf.out))), AsymptoteTolerance)

\* the filter of the test has taken the seed and two unit steps in exact
\* arithmetic, and is short of the step
LPFStepReached ==
    /\ prec = 0
    /\ lpf.q = LpfTest
    /\ UnitSteps(lpf.us, 2)
    /\ lpf.out # F(1)
    /\ lpf.out # lpf.pre.prev

\* C20: HPF.Update omits the input: its return value and the next state are
\* alpha * (prev + DT), alpha = rc / (rc + DT), so two HPFs of equal corner
\* frequency and DT given different inputs return the same values and stay
\* in the same state.
HPFIgnoresInput ==
    hpf.n > 0 =>
        /\ hpf.out[1] = hpf.out[2]
        /\ hpf.h[1] = hpf.h[2]
        /\ \A k \in {1, 2} :
              LET p == hpf.pre[k]
              IN  /\ hpf.out[k] = Mul(Div(p.rc, Add(p.rc, p.DT)), Add(p.prev, p.DT))
                  /\ hpf.h[k] = [p EXCEPT !.prev = hpf.out[k]]

\* two HPFs have taken two Updates each with inputs that differ at every
\* Update, and returned a non-zero value
HPFDifferentInputsReached ==
    /\ hpf.n = 2
    /\ \A i \in 1..2 : hpf.us[1][i] # hpf.us[2][i]
    /\ hpf.out[1] # Zero
    /\ hpf.out[1] # hpf.pre[1].prev

(***************************************************************************)
(* TestHighPassRejectsOscillation                                          *)
(***************************************************************************)
\* C21: the HPF of the test (fc = 1 MHz, DT = 1e-3), seeded with Update(0) and
\* then driven by the unit step, returns from every Update a value within
\* 1e-5 of 0, and the test does not report an error.
HPFRejectsSlowStep ==
    (hpt.q = HpfTest /\ hpt.target = F(1)) =>
        /\ \A k \in 1..Len(hpt.outs) :
              Le(MathAbs(hpt.outs[k]), AsymptoteTolerance)
        /\ ~hpt.failed

\* the test has run to its end in rounded arithmetic: the seed and five unit
\* steps, each returning a value other than 0
HPFTestDoneReached ==
    /\ hpt.q = HpfTest
    /\ hpt.target = F(1)
    /\ prec = PrecBits
    /\ hpt.pc = "done"
    /\ Len(hpt.outs) = HpfSteps + 1
    /\ \A k \in 1..Len(hpt.outs) : hpt.outs[k] # Zero

(***************************************************************************)
(* PIDCtl                                                                  *)
(***************************************************************************)
\* C22: the loop answers every measurement it receives from m with exactly one
\* send on o before it receives the next one, in order (the k-th send follows
\* the k-th receive); the first measurement only seeds the loop: the Output the
\* controller held before is what is sent, and integral, prevErr and Output are
\* as they were.
LoopSynchronised ==
    /\ Len(ctl.sentAt) <= Len(ctl.recvd)
    /\ Len(ctl.recvd) <= Len(ctl.sentAt) + 1
    /\ \A k \in 1..Len(ctl.sentAt) : ctl.sentAt[k] = k
    /\ ctl.pc \in {"recv", "unlock", "paused", "done"} =>
          Len(ctl.sentAt) = Len(ctl.recvd)
    /\ ctl.pc \in {"seedSend", "lock", "send"} =>
          Len(ctl.recvd) = Len(ctl.sentAt) + 1
    /\ Len(ctl.outs) >= 1 => ctl.outs[1] \in CtlOutputs
    /\ Len(ctl.recvd) = 1 =>
          /\ ctl.integral = Zero
          /\ ctl.prevErr = Zero
          /\ ctl.Output \in CtlOutputs
          /\ ctl.started

\* the select loop has answered MaxMeas measurements, the first of them with
\* the Output it held and the later ones with computed values, under locking
LoopAnsweredAllReached ==
    /\ ctl.rev = "Start"
    /\ Len(ctl.recvd) = MaxMeas
    /\ Len(ctl.sentAt) = MaxMeas
    /\ ctl.recvd[1] # ctl.Setpt
    /\ ctl.outs[2] # ctl.outs[1]
    /\ ctl.locking
    /\ ctl.lockedIter

\* C23: once m is closed, and with o being received from, Loop returns; by
\* then it has received every measurement that was buffered in m at the close
\* and no other (none at all when m is unbuffered), and has sent one output for
\* each measurement it received.
LoopDrainsAndReturns ==
    /\ [](ctl.m.closed => <>(ctl.pc = "done"))
    /\ [](ctl.pc = "done" =>
             /\ Len(ctl.recvd) = ctl.atClose[1] + ctl.atClose[2]
             /\ Len(ctl.recvd) = ctl.nProd
             /\ Len(ctl.sentAt) = Len(ctl.recvd))
    /\ [](ctl.m.closed /\ ctl.m.cap = 0 =>
             Len(ctl.recvd) \in {ctl.atClose[1]})

\* Loop has returned after m was closed with two measurements in its buffer,
\* and under locking
LoopDrainedReached ==
    /\ ctl.rev = "Loop"
    /\ ctl.pc = "done"
    /\ ctl.atClose[2] = 2
    /\ Len(ctl.recvd) = MaxMeas
    /\ ctl.locking

\* C24: with EnableLocking and DisableLocking called at any point of a loop
\* iteration, every Unlock the loop performs matches a Lock it performed in the
\* same iteration, no Unlock finds the mutex unlocked (which aborts the
\* program), and the loop never waits for a mutex it locked itself.
LockingToggleSafe ==
    /\ ~ctl.unmatched
    /\ ~ctl.fatal
    /\ ctl.pc = "lock" => ctl.mu # "loop"

\* the call of Stop in progress, or the one that returned last, directly
\* follows a call of Pause (a chain the documentation leaves undefined)
StopAfterPause ==
    LET d == ctl.cmd.done
        k == IF ctl.cmd.pc = "idle" THEN Len(d) - 1 ELSE Len(d)
    IN  k >= 1 /\ d[k] = "pause"

\* C25: a call of Stop made at any moment after go Start(m, o), while the loop
\* has not returned (and not directly after Pause), returns, and once it has
\* returned the loop has returned and Running is false.
StopEndsLoop ==
    /\ [](/\ ctl.cmd.op = "stop"
          /\ ctl.cmd.pc = "send"
          /\ ctl.pc # "done"
          /\ ~StopAfterPause
          /\ ~ctl.fatal
          => <>(ctl.cmd.pc = "idle" \/ ctl.fatal))
    /\ [](/\ ctl.cmd.op = "stop"
          /\ ctl.cmd.pc = "idle"
          /\ ~StopAfterPause
          /\ ~ctl.fatal
          => ctl.pc = "done" /\ ~ctl.Running)

\* the loop is processing: it has initialised and is neither paused nor
\* returned
CtlProcessing == ctl.pc \notin {"init", "paused", "done"}

\* C26: once Pause has returned the loop is suspended (it receives nothing
\* from m and sends nothing on o) until Resume is called; a suspended loop is
\* released by the resume command only; the suspended loop keeps its integral
\* and previous error; and between calls Running is true exactly while the
\* loop is processing.
PauseSuspendsUntilResume ==
    /\ [](/\ ctl.cmd.pc = "idle"
          /\ ctl.cmd.op = "pause"
          /\ ~ctl.fatal
          => ctl.pc = "paused")
    /\ [][ctl.pc = "paused" /\ ctl'.pc # "paused" => ctl.cmd.op = "resume"]_vars
    /\ [](ctl.pc = "paused" => <<ctl.integral, ctl.prevErr>> = ctl.atPause)
    /\ [](ctl.cmd.pc = "idle" /\ ~ctl.fatal => (ctl.Running <=> CtlProcessing))

(***************************************************************************)
(* PhaseLock                                                               *)
(***************************************************************************)
\* C27: Stop returns no earlier than Interval after the matching Start; when
\* the elapsed time dT does not exceed Interval it sleeps for exactly
\* Interval - dT, which is never negative, and when dT exceeds Interval it
\* returns at once without sleeping.
PhaseLockPaces ==
    /\ pl.pc = "returned" => pl.retAt - pl.startAt >= pl.Interval
    /\ pl.pc \in {"sleeping", "returned"} =>
          /\ pl.slept <=> pl.dT <= pl.Interval
          /\ pl.slept => pl.d = pl.Interval - pl.dT /\ pl.d >= 0
          /\ ~pl.slept /\ pl.pc = "returned" => pl.retAt = pl.startAt + pl.dT

\* Stop has slept after a loop body shorter than Interval, in the second lap
PhaseLockSleptReached ==
    /\ pl.pc = "returned"
    /\ pl.laps = 2
    /\ pl.slept
    /\ pl.dT > 0
    /\ pl.d > 0
    /\ pl.retAt - pl.startAt = pl.Interval

(***************************************************************************)
(* Biquad difference equation                                              *)
(***************************************************************************)
\* s[n], or 0 for an index before the first sample
At(s, n) == IF n >= 1 THEN s[n] ELSE Zero

\* a0*x[n] + a1*x[n-1] + a2*x[n-2] - b1*y[n-1] - b2*y[n-2]
DiffEq(c, xs, ys, n) ==
    Sub(Sub(Add(Add(Mul(c[1], At(xs, n)), Mul(c[2], At(xs, n - 1))),
                Mul(c[3], At(xs, n - 2))),
            Mul(c[4], At(ys, n - 1))),
        Mul(c[5], At(ys, n - 2)))

\* C28: from zero delay states, the n-th return value of Biquad.Update is
\* a0*x[n] + a1*x[n-1] + a2*x[n-2] - b1*y[n-1] - b2*y[n-2] (terms of an index
\* before the first sample are 0), and Update leaves a0, a1, a2, b1, b2 as
\* NewBiquad set them.
BiquadDifferenceEquation ==
    Len(dq.ys) >= 1 =>
        /\ \A n \in 1..Len(dq.ys) : dq.ys[n] = DiffEq(dq.c, dq.xs, dq.ys, n)
        /\ <<dq.b.a0, dq.b.a1, dq.b.a2, dq.b.b1, dq.b.b2>> = dq.c

\* four Updates of a filter whose five coefficients are all other than 0,
\* with inputs and outputs other than 0 at the samples the last output
\* depends on
BiquadFourUpdatesReached ==
    /\ Len(dq.ys) = 4
    /\ \A k \in 1..5 : dq.c[k] # Zero
    /\ \A n \in 2..4 : dq.xs[n] # Zero
    /\ \A n \in 2..4 : dq.ys[n] # Zero
    /\ dq.b.z1 # Zero
    /\ dq.b.z2 # Zero

FIRBuffersInvariant ==
    LET N == Len(firCall.taps)
    IN  N >= 1 =>
          /\ Len(fir.x) = N
          /\ Len(fir.h) = 2 * N
          /\ \A i \in 0..(N - 1) :
                /\ fir.h[i + 1] = firCall.taps[N - i]
                /\ fir.h[i + N + 1] = firCall.taps[N - i]
          /\ fir.j \in 0..(N - 1)
          /\ firCall.op # "UpdatePanic"
          /\ firCall.op = "Update" =>
                LET input == firCall.u[Len(firCall.u)]
                    p     == firCall.pre
                    h0    == N - fir.j
                IN  /\ fir.x = [p.x EXCEPT ![p.j + 1] = input]
                    /\ fir.j = (p.j + 1) % N
                    /\ fir.h = p.h
                    /\ 0 <= h0
                    /\ h0 + N <= Len(fir.h)
                    /\ firCall.out =
                          firDot(fir.x, SubSeq(fir.h, h0 + 1, h0 + N), 1, Zero)

\* the fourth Update of a filter of three taps of distinct weights: j has
\* wrapped to 0 and come to 1, and the input overwrote the first one
FIROverwroteFirstReached ==
    /\ firCall.taps = <<F(2), F(-1), Norm(1, 2)>>
    /\ firCall.op = "Update"
    /\ Len(firCall.u) = 4
    /\ firCall.pre.j = 0
    /\ fir.j = 1
    /\ fir.x[1] # firCall.u[1]
    /\ firCall.out # Zero

====
